---------------------------- MODULE Spec2Model ----------------------------
(***************************************************************************)
(* A model of the sheet-metal drawing engine of src/services/dxfService.ts *)
(* : the DXF writer (SimpleDxfWriter), the preview parser (parseDxf), the  *)
(* bend flattening routine (calculateFlatPattern) and the orchestrator     *)
(* (generateFabricationFiles).                                             *)
(*                                                                         *)
(* Numbers.  A JavaScript number is modelled as an integer count of        *)
(* 1/Scale millimetres.  Scale is a multiple of 1000 (so three-decimal     *)
(* values are exact) and of 2..6 (so the divisions the engine performs on  *)
(* the inputs drawn here are exact).  The 1e-16 relative rounding of IEEE  *)
(* doubles is not modelled; NaN and +/-Infinity are the sentinels below.   *)
(*                                                                         *)
(* Text.  The writer's buffer is an array of strings joined by '\n', and   *)
(* the parser splits on '\n' again: a drawing text is modelled as the      *)
(* sequence of its lines.  A line is a token: a literal string, or the     *)
(* decimal literal produced by toFixed(3), toFixed(1) or toString().       *)
(***************************************************************************)
EXTENDS Integers, Sequences, FiniteSets, TLC

VARIABLES
    segments,     \* calculateFlatPattern: the argument `segments`
    thickness,    \* calculateFlatPattern: the argument `thickness`
    flat,         \* calculateFlatPattern: the returned record (done = FALSE before the call)
    content,      \* SimpleDxfWriter.content of the writer under test
    appended,     \* the add* calls made on that writer, in order (history)
    renders,      \* the texts returned by the toString() calls on that writer, in order
    parsed,       \* the result of parseDxf on the last rendered text
    data,         \* the project record (ExtractedData) handed to generateFabricationFiles
    data0,        \* the project record as it was before the first invocation (history)
    outputs,      \* the file lists returned by the invocations so far, in order
    input,        \* the text handed to the parseDxf call that is followed loop by loop
    run,          \* that call's local variables, and the loop it is in
    app           \* App: its state hooks, and where its upload handler stands

vars == <<segments, thickness, flat, content, appended, renders, parsed, data, data0, outputs,
          input, run, app>>

---------------------------------------------------------------------------
(* Numbers *)

Scale == 1000 * 60

\* One thousandth of a millimetre, in model units.
Milli == Scale \div 1000

\* One tenth of a millimetre, in model units.
Tenth == Scale \div 10

NaN == -2000000001
PosInf == 2000000000
NegInf == -2000000000

IsFinite(x) == x # NaN /\ x # PosInf /\ x # NegInf

Abs(x) == IF x < 0 THEN -x ELSE x

\* a / b rounded to the nearest integer, ties away from zero (b > 0):
\* the rounding Number.prototype.toFixed applies to the decimal it prints.
RoundDiv(a, b) == IF a >= 0 THEN (2 * a + b) \div (2 * b) ELSE -((2 * (-a) + b) \div (2 * b))

\* a / b truncated toward zero (b > 0): what parseInt keeps of a decimal.
TruncDiv(a, b) == IF a >= 0 THEN a \div b ELSE -((-a) \div b)

\* a comparison that holds as soon as one side is NaN
Lt_TrueOnNaN(a, b) == a = NaN \/ b = NaN \/ a < b

\* IEEE comparison: false as soon as one side is NaN.
Lt(a, b) == a # NaN /\ b # NaN /\ a < b

\* IEEE addition on the sentinels.
Plus(a, b) ==
    IF a = NaN \/ b = NaN THEN NaN
    ELSE IF a = PosInf THEN (IF b = NegInf THEN NaN ELSE PosInf)
    ELSE IF a = NegInf THEN (IF b = PosInf THEN NaN ELSE NegInf)
    ELSE IF b = PosInf \/ b = NegInf THEN b
    ELSE a + b

Minus(a, b) ==
    Plus(a, IF b = NaN THEN NaN ELSE IF b = PosInf THEN NegInf ELSE IF b = NegInf THEN PosInf ELSE -b)

---------------------------------------------------------------------------
(* Lines of a drawing text *)

\* A line (or a text value) is [k, s, v, w]:
\*   k = "str"   the literal string s
\*   k = "f3"    s followed by the decimal v/1000 printed with three digits
\*   k = "f1"    s followed by the decimal v/10 printed with one digit
\*   k = "f0"    s followed by the integer v
\*   k = "num"   s followed by the shortest decimal of v/Scale (Number.toString)
\*   k = "wxh"   the shortest decimals of v/Scale and w/Scale joined by "x"
\*   k = "undef" the value `undefined`
Str(s) == [k |-> "str", s |-> s, v |-> 0, w |-> 0]

\* the value `undefined`: what lines[i] is past the end of the array
Undefined == [k |-> "undef", s |-> "", v |-> 0, w |-> 0]

\* toFixed(3) cutting the digits after the third instead of rounding.
ToFixed3_Truncating(x) == [k |-> "f3", s |-> "", v |-> TruncDiv(x, Milli), w |-> 0]

\* x.toFixed(3): the decimal with three digits nearest to x; v counts thousandths.
ToFixed3(x) == [k |-> "f3", s |-> "", v |-> RoundDiv(x, Milli), w |-> 0]

\* `${prefix}${x.toFixed(1)}`: v counts tenths.
ToFixed1(prefix, x) == [k |-> "f1", s |-> prefix, v |-> RoundDiv(x, Tenth), w |-> 0]

\* x.toFixed(0)
ToFixed0(x) == [k |-> "f0", s |-> "", v |-> RoundDiv(x, Scale), w |-> 0]

\* x.toString(): the shortest decimal that reads back as x; v is x itself.
NumToString(x) == [k |-> "num", s |-> "", v |-> x, w |-> 0]

\* n.toString() of an integer n (a colour index).
IntToString(n) == [k |-> "num", s |-> "", v |-> n * Scale, w |-> 0]

\* `${a}x${b}`
WxH(a, b) == [k |-> "wxh", s |-> "", v |-> a, w |-> b]

\* The literal strings of the format that read as integers.
CodeStrings ==
    {"0", "1", "2", "6", "7", "8", "9", "10", "11", "20", "21", "30", "31", "40", "50", "62", "66", "70"}

IntOfString(s) ==
    CASE s = "0" -> 0 [] s = "1" -> 1 [] s = "2" -> 2 [] s = "6" -> 6 [] s = "7" -> 7
      [] s = "8" -> 8 [] s = "9" -> 9 [] s = "10" -> 10 [] s = "11" -> 11 [] s = "20" -> 20
      [] s = "21" -> 21 [] s = "30" -> 30 [] s = "31" -> 31 [] s = "40" -> 40 [] s = "50" -> 50
      [] s = "62" -> 62 [] s = "66" -> 66 [] s = "70" -> 70
      [] OTHER -> NaN

\* parseInt(line): the integer prefix of the line, NaN when there is none.
ParseInt(t) ==
    CASE t.k = "str" -> IntOfString(t.s)
      [] t.k = "undef" -> NaN
      [] t.s # "" -> NaN
      [] t.k = "f3" -> TruncDiv(t.v, 1000)
      [] t.k = "f1" -> TruncDiv(t.v, 10)
      [] t.k = "f0" -> t.v
      [] OTHER -> TruncDiv(t.v, Scale)

\* parseFloat(line): the decimal prefix of the line, NaN when there is none.
ParseFloat(t) ==
    CASE t.k = "str" ->
            (IF t.s = "0.0" THEN 0
             ELSE IF t.s \in CodeStrings THEN IntOfString(t.s) * Scale
             ELSE NaN)
      [] t.k = "undef" -> NaN
      [] t.s # "" -> NaN
      [] t.k = "f3" -> t.v * Milli
      [] t.k = "f1" -> t.v * Tenth
      [] t.k = "f0" -> t.v * Scale
      [] OTHER -> t.v

RECURSIVE Digits(_)
\* The number of decimal digits of n >= 0.
Digits(n) == IF n < 10 THEN 1 ELSE 1 + Digits(n \div 10)

\* The length of the shortest decimal of x/Scale: sign, integer digits, and the
\* fraction digits of a value with at most three of them (17 significant digits
\* otherwise).
NumLen(x) ==
    (IF x < 0 THEN 1 ELSE 0) + Digits(Abs(x) \div Scale)
    + (CASE Abs(x) % Scale = 0 -> 0
         [] Abs(x) % Tenth = 0 -> 2
         [] Abs(x) % (10 * Milli) = 0 -> 3
         [] Abs(x) % Milli = 0 -> 4
         [] OTHER -> 18 - Digits(Abs(x) \div Scale))

\* String.prototype.length of a line.
StrLen(t) ==
    CASE t.k = "str" -> Len(t.s)
      [] t.k = "f1" -> Len(t.s) + (IF t.v < 0 THEN 1 ELSE 0) + Digits(Abs(t.v) \div 10) + 2
      [] t.k = "f3" -> Len(t.s) + (IF t.v < 0 THEN 1 ELSE 0) + Digits(Abs(t.v) \div 1000) + 4
      [] t.k = "f0" -> Len(t.s) + (IF t.v < 0 THEN 1 ELSE 0) + Digits(Abs(t.v))
      [] t.k = "wxh" -> NumLen(t.v) + 1 + NumLen(t.w)
      [] OTHER -> Len(t.s) + NumLen(t.v)

---------------------------------------------------------------------------
(* calculateFlatPattern *)

RECURSIVE Reduce(_, _, _)
\* segments.reduce((a, b) => a + b, 0), from index k on with accumulator acc.
Reduce(segs, k, acc) ==
    IF k > Len(segs) THEN acc ELSE Reduce(segs, k + 1, acc + segs[k])

RECURSIVE CumOuter(_, _, _, _)
\* for (k = 0; k <= i; k++) cumOuter += segments[k]   (k, i one-based here)
CumOuter(segs, k, i, acc) ==
    IF k > i THEN acc ELSE CumOuter(segs, k + 1, i, acc + segs[k])

\* Correction with the wrong sign: added to the outer length where it is subtracted.
Correction_Negated(i, bendDeduction) == -((i * bendDeduction) + (bendDeduction \div 2))

\* Correction without the half deduction of the bend itself.
Correction_NoHalf(i, bendDeduction) == i * bendDeduction

\* Correction without the deductions of the bends before it.
Correction_NoCompound(i, bendDeduction) == bendDeduction \div 2

\* correction = i * BEND_DEDUCTION + BEND_DEDUCTION / 2, for the zero-based bend index i
Correction(i, bendDeduction) == (i * bendDeduction) + (bendDeduction \div 2)

RECURSIVE BendLoop(_, _, _, _)
\* for (i = 0; i < segments.length - 1; i++) bendPositions.push(cumOuter - correction)
\* with i zero-based as in the source.
BendLoop(segs, i, bendDeduction, acc) ==
    IF ~(i < Len(segs) - 1) THEN acc
    ELSE BendLoop(segs, i + 1, bendDeduction,
                  Append(acc, CumOuter(segs, 1, i + 1, 0) - Correction(i, bendDeduction)))

calculateFlatPattern(segs, t) ==
    LET BEND_DEDUCTION == 2 * t
        totalOuter == Reduce(segs, 1, 0)
        totalDeductions == (Len(segs) - 1) * BEND_DEDUCTION
        finalFlatLength == totalOuter - totalDeductions
    IN  [flatLength |-> finalFlatLength,
         bendPositions |-> BendLoop(segs, 0, BEND_DEDUCTION, <<>>)]

---------------------------------------------------------------------------
(* SimpleDxfWriter *)

\* The six layers of the layer table: [name, colour, line type].
LayerTable ==
    << <<"0", "7", "CONTINUOUS">>, <<"CUT_OUTER", "7", "CONTINUOUS">>,
       <<"CUT_INNER", "1", "CONTINUOUS">>, <<"BEND", "2", "DASHED">>,
       <<"DIMENSIONS", "3", "CONTINUOUS">>, <<"TEXT", "4", "CONTINUOUS">> >>

RECURSIVE LayerRows(_)
LayerRows(k) ==
    IF k > Len(LayerTable) THEN <<>>
    ELSE << Str("0"), Str("LAYER"), Str("2"), Str(LayerTable[k][1]), Str("70"), Str("0"),
            Str("62"), Str(LayerTable[k][2]), Str("6"), Str(LayerTable[k][3]) >>
         \o LayerRows(k + 1)

\* The buffer of a new writer: the constructor calls header().
header ==
    << Str("0"), Str("SECTION"), Str("2"), Str("HEADER"), Str("9"), Str("$ACADVER"),
       Str("1"), Str("AC1009"), Str("0"), Str("ENDSEC"),
       Str("0"), Str("SECTION"), Str("2"), Str("TABLES"),
       Str("0"), Str("TABLE"), Str("2"), Str("LAYER"), Str("70"), Str("6") >>
    \o LayerRows(1)
    \o << Str("0"), Str("ENDTAB"), Str("0"), Str("ENDSEC"),
          Str("0"), Str("SECTION"), Str("2"), Str("ENTITIES") >>

\* the lines one addLine call pushes
LineRows(x1, y1, x2, y2, layer, color) ==
    << Str("0"), Str("LINE"), Str("8"), Str(layer), Str("62"), IntToString(color),
       Str("10"), ToFixed3(x1), Str("20"), ToFixed3(y1), Str("30"), Str("0.0"),
       Str("11"), ToFixed3(x2), Str("21"), ToFixed3(y2), Str("31"), Str("0.0") >>

addLine(c, x1, y1, x2, y2, layer, color) == c \o LineRows(x1, y1, x2, y2, layer, color)

RECURSIVE VertexRows(_, _, _)
\* for (const [x, y] of points) content.push('0', 'VERTEX', ...)
VertexRows(points, k, layer) ==
    IF k > Len(points) THEN <<>>
    ELSE << Str("0"), Str("VERTEX"), Str("8"), Str(layer),
            Str("10"), ToFixed3(points[k][1]), Str("20"), ToFixed3(points[k][2]),
            Str("30"), Str("0.0") >>
         \o VertexRows(points, k + 1, layer)

\* the lines one addPolyline call pushes
PolylineRows(points, layer, color, closed) ==
    << Str("0"), Str("POLYLINE"), Str("8"), Str(layer), Str("62"), IntToString(color),
       Str("66"), Str("1"), Str("10"), Str("0.0"), Str("20"), Str("0.0"),
       Str("30"), Str("0.0"), Str("70"), Str(IF closed THEN "1" ELSE "0") >>
      \o VertexRows(points, 1, layer)
      \o << Str("0"), Str("SEQEND") >>

addPolyline(c, points, layer, color, closed) == c \o PolylineRows(points, layer, color, closed)

\* the lines one addCircle call pushes
CircleRows(cx, cy, radius, layer, color) ==
    << Str("0"), Str("CIRCLE"), Str("8"), Str(layer), Str("62"), IntToString(color),
       Str("10"), ToFixed3(cx), Str("20"), ToFixed3(cy), Str("30"), Str("0.0"),
       Str("40"), ToFixed3(radius) >>

addCircle(c, cx, cy, radius, layer, color) == c \o CircleRows(cx, cy, radius, layer, color)

\* the lines one addText call pushes; text is a line token: a literal string, or the
\* decimal a caller formatted
TextRows(text, x, y, height, layer, rotation) ==
    << Str("0"), Str("TEXT"), Str("8"), Str(layer),
       Str("10"), ToFixed3(x), Str("20"), ToFixed3(y), Str("30"), Str("0.0"),
       Str("40"), NumToString(height), Str("50"), NumToString(rotation),
       Str("1"), text >>

addText(c, text, x, y, height, layer, rotation) ==
    c \o TextRows(text, x, y, height, layer, rotation)

\* Math.sign
Sign(x) == IF x > 0 THEN 1 ELSE IF x < 0 THEN -1 ELSE 0

\* a / b as the nearest model number (b >= 0); a / 0 is an infinity or NaN
Div(a, b) ==
    IF b = 0 THEN (IF a > 0 THEN PosInf ELSE IF a < 0 THEN NegInf ELSE NaN)
    ELSE RoundDiv(a, b)

\* Math.sqrt(dx^2 + dy^2) for the directions Dir knows: along an axis, or with
\* |dx| : |dy| = 3 : 4 or 4 : 3.
Hypot(dx, dy) ==
    CASE dy = 0 -> Abs(dx)
      [] dx = 0 -> Abs(dy)
      [] 4 * Abs(dx) = 3 * Abs(dy) -> (5 * Abs(dx)) \div 3
      [] 3 * Abs(dx) = 4 * Abs(dy) -> (5 * Abs(dx)) \div 4

\* The unit vector (c/d, s/d) of Math.atan2(dy, dx), (dx, dy) # (0, 0).
Dir(dx, dy) ==
    CASE dy = 0 -> [c |-> Sign(dx), s |-> 0, d |-> 1]
      [] dx = 0 -> [c |-> 0, s |-> Sign(dy), d |-> 1]
      [] 4 * Abs(dx) = 3 * Abs(dy) -> [c |-> 3 * Sign(dx), s |-> 4 * Sign(dy), d |-> 5]
      [] 3 * Abs(dx) = 4 * Abs(dy) -> [c |-> 4 * Sign(dx), s |-> 3 * Sign(dy), d |-> 5]

\* angle * 180 / Math.PI for the angle of dir, in (-180, 180] degrees
AngleDeg(dir) ==
    LET base == CASE dir.s = 0 -> 0
                  [] dir.c = 0 -> 90 * Scale
                  [] Abs(dir.c) = 3 -> 3187806
                  [] OTHER -> 2212194
    IN  CASE dir.c >= 0 /\ dir.s >= 0 -> base
          [] dir.c >= 0 -> -base
          [] dir.s >= 0 -> 180 * Scale - base
          [] OTHER -> base - 180 * Scale

\* the offset taken along the segment instead of across it
PerpX_Along(dir, len) == RoundDiv(dir.c * len, dir.d)

\* Math.cos(perpAngle) * len and Math.sin(perpAngle) * len, perpAngle = angle + PI/2
PerpX(dir, len) == RoundDiv((-dir.s) * len, dir.d)
PerpY(dir, len) == RoundDiv(dir.c * len, dir.d)

\* Math.cos(tickAngle) * tickSize and Math.sin(tickAngle) * tickSize for
\* tickAngle = angle + PI/4 and tickSize = 2.0: (c - s) * sqrt(2) and (s + c) * sqrt(2)
TickX(dir) == RoundDiv((dir.c - dir.s) * 84853, dir.d)
TickY(dir) == RoundDiv((dir.s + dir.c) * 84853, dir.d)

\* textRot left as the angle in degrees
TextRot_Angle(dir) == AngleDeg(dir)

\* textRot: the angle in degrees, plus 180 when above 90 or below -90
TextRot(dir) ==
    IF AngleDeg(dir) > 90 * Scale \/ AngleDeg(dir) < -(90 * Scale)
    THEN AngleDeg(dir) + 180 * Scale
    ELSE AngleDeg(dir)

\* addDimension past its early return: the two extension lines, the dimension line,
\* the two ticks and the text.  sg is Math.sign(offset); gap, overshoot and textGap
\* are 2.0, textHeight 3.5, and the text is estimated 3.5 * 0.6 wide per character.
DrawDimension(x1, y1, x2, y2, val, offset, dir, sg) ==
    LET offX == PerpX(dir, offset)
        offY == PerpY(dir, offset)
        gapX == PerpX(dir, sg * 2 * Scale)
        gapY == PerpY(dir, sg * 2 * Scale)
        overX == PerpX(dir, sg * 2 * Scale)
        overY == PerpY(dir, sg * 2 * Scale)
        tickX == TickX(dir)
        tickY == TickY(dir)
        textStr == ToFixed1("", val)
        halfWidth == Div(StrLen(textStr) * 21 * Tenth, 2)
    IN  LineRows(x1 + gapX, y1 + gapY, x1 + offX + overX, y1 + offY + overY, "DIMENSIONS", 3)
        \o LineRows(x2 + gapX, y2 + gapY, x2 + offX + overX, y2 + offY + overY, "DIMENSIONS", 3)
        \o LineRows(x1 + offX, y1 + offY, x2 + offX, y2 + offY, "DIMENSIONS", 3)
        \o LineRows(x1 + offX - tickX, y1 + offY - tickY, x1 + offX + tickX, y1 + offY + tickY,
                    "DIMENSIONS", 3)
        \o LineRows(x2 + offX - tickX, y2 + offY - tickY, x2 + offX + tickX, y2 + offY + tickY,
                    "DIMENSIONS", 3)
        \o TextRows(textStr,
                    Div(x1 + offX + x2 + offX, 2) + PerpX(dir, 2 * Scale) - halfWidth,
                    Div(y1 + offY + y2 + offY, 2) + PerpY(dir, 2 * Scale) - 175 * (Scale \div 100),
                    35 * Tenth, "TEXT", TextRot(dir))

\* addDimension with the early return taken only below a distance of 0.01
DimensionRows_Below001(x1, y1, x2, y2, value, offset) ==
    IF Hypot(x2 - x1, y2 - y1) < Tenth \div 10 THEN <<>>
    ELSE DrawDimension(x1, y1, x2, y2,
                       IF value # <<>> THEN value[1] ELSE Hypot(x2 - x1, y2 - y1),
                       offset, Dir(x2 - x1, y2 - y1), Sign(offset))

\* the lines one addDimension(x1, y1, x2, y2, value, offset) call pushes; value is
\* <<>> when the argument is omitted and <<v>> when it is v
DimensionRows(x1, y1, x2, y2, value, offset) ==
    IF Hypot(x2 - x1, y2 - y1) < Tenth THEN <<>>
    ELSE DrawDimension(x1, y1, x2, y2,
                       IF value # <<>> THEN value[1] ELSE Hypot(x2 - x1, y2 - y1),
                       offset, Dir(x2 - x1, y2 - y1), Sign(offset))

addDimension(c, x1, y1, x2, y2, value, offset) ==
    c \o DimensionRows(x1, y1, x2, y2, value, offset)

\* Math.cos(angleRad) * length = Math.sin(angleRad) * length for the 45 degree leader
\* every caller asks for (length a whole number of millimetres)
LeaderLeg(angleDeg, length) ==
    CASE angleDeg = 45 -> RoundDiv((length \div Scale) * 42426407, 1000)

\* the lines one addCallout(x, y, text, angleDeg, length) call pushes: leader line,
\* landing of 10 in the direction Math.sign(Math.cos(angleRad)) = 1, text beside it
CalloutRows(x, y, text, leg) ==
    LineRows(x, y, x + leg, y + leg, "DIMENSIONS", 3)
    \o LineRows(x + leg, y + leg, x + leg + 10 * Scale, y + leg, "DIMENSIONS", 3)
    \o TextRows(text, x + leg + 2 * Scale, y + leg + 2 * Scale, 35 * Tenth, "TEXT", 0)

addCallout(c, x, y, text, angleDeg, length) ==
    c \o CalloutRows(x, y, text, LeaderLeg(angleDeg, length))

\* toString(): pushes the end markers on the buffer, then joins it.
\* buffer is the writer's content afterwards, text the returned string (its lines).
\* toString that closes the section and leaves out the end-of-file marker
toString_NoEof(c) ==
    LET pushed == c \o << Str("0"), Str("ENDSEC") >>
    IN  [buffer |-> pushed, text |-> pushed]

toString(c) ==
    LET pushed == c \o << Str("0"), Str("ENDSEC"), Str("0"), Str("EOF") >>
    IN  [buffer |-> pushed, text |-> pushed]

---------------------------------------------------------------------------
(* parseDxf *)

\* String.prototype.trim on the strings drawn in this model.
TrimString(s) ==
    CASE s = "  PLATE A " -> "PLATE A"
      [] OTHER -> s

Trim(t) == IF t.k = "str" THEN Str(TrimString(t.s)) ELSE t

\* content.split('\n').map(l => l.trim())
SplitLines(text) == [k \in 1..Len(text) |-> Trim(text[k])]

\* lines[i] for the zero-based index i of the source
LineAt(lines, i) == IF i < Len(lines) THEN lines[i + 1] ELSE Undefined

\* peek(): the pair at i, without consuming it (the caller tests i >= lines.length first)
Peek(lines, i) == [code |-> ParseInt(LineAt(lines, i)), value |-> LineAt(lines, i + 1)]

\* updateBounds(x, y) on the four running bounds held in the record b
updateBounds(b, x, y) ==
    [b EXCEPT !.minX = IF Lt(x, b.minX) THEN x ELSE b.minX,
              !.maxX = IF Lt(b.maxX, x) THEN x ELSE b.maxX,
              !.minY = IF Lt(y, b.minY) THEN y ELSE b.minY,
              !.maxY = IF Lt(b.maxY, y) THEN y ELSE b.maxY]

RECURSIVE ReadPairs(_, _, _)
\* let p = peek(); while (p && p.code !== 0) { next(); ...; p = peek(); }
\* returns the index after the loop and the pairs it consumed, in order.
ReadPairs(lines, i, acc) ==
    IF i >= Len(lines) THEN [i |-> i, pairs |-> acc]
    ELSE IF Peek(lines, i).code = 0 THEN [i |-> i, pairs |-> acc]
    ELSE ReadPairs(lines, i + 2, Append(acc, Peek(lines, i)))

\* The body of a field loop, for each of the four entity kinds and for a vertex:
\* a run of `if (p.code === c) field = ...` over distinct codes c.
ApplyField(kind, e, p) ==
    CASE kind = "LINE" ->
            (CASE p.code = 8 -> [e EXCEPT !.layer = p.value]
               [] p.code = 62 -> [e EXCEPT !.color = ParseInt(p.value)]
               [] p.code = 10 -> [e EXCEPT !.points[1].x = ParseFloat(p.value)]
               [] p.code = 20 -> [e EXCEPT !.points[1].y = ParseFloat(p.value)]
               [] p.code = 11 -> [e EXCEPT !.points[2].x = ParseFloat(p.value)]
               [] p.code = 21 -> [e EXCEPT !.points[2].y = ParseFloat(p.value)]
               [] OTHER -> e)
      [] kind = "CIRCLE" ->
            (CASE p.code = 8 -> [e EXCEPT !.layer = p.value]
               [] p.code = 62 -> [e EXCEPT !.color = ParseInt(p.value)]
               [] p.code = 10 -> [e EXCEPT !.center.x = ParseFloat(p.value)]
               [] p.code = 20 -> [e EXCEPT !.center.y = ParseFloat(p.value)]
               [] p.code = 40 -> [e EXCEPT !.radius = ParseFloat(p.value)]
               [] OTHER -> e)
      [] kind = "TEXT" ->
            (CASE p.code = 8 -> [e EXCEPT !.layer = p.value]
               [] p.code = 62 -> [e EXCEPT !.color = ParseInt(p.value)]
               [] p.code = 10 -> [e EXCEPT !.x = ParseFloat(p.value)]
               [] p.code = 20 -> [e EXCEPT !.y = ParseFloat(p.value)]
               [] p.code = 40 -> [e EXCEPT !.height = ParseFloat(p.value)]
               [] p.code = 1 -> [e EXCEPT !.text = p.value]
               [] OTHER -> e)
      [] kind = "POLYLINE" ->
            (CASE p.code = 8 -> [e EXCEPT !.layer = p.value]
               [] p.code = 62 -> [e EXCEPT !.color = ParseInt(p.value)]
               [] p.code = 70 /\ ParseInt(p.value) # NaN /\ ParseInt(p.value) % 2 = 1 ->
                     [e EXCEPT !.closed = TRUE]
               [] OTHER -> e)
      [] OTHER ->
            (CASE p.code = 10 -> [e EXCEPT !.x = ParseFloat(p.value)]
               [] p.code = 20 -> [e EXCEPT !.y = ParseFloat(p.value)]
               [] OTHER -> e)

RECURSIVE ApplyFields(_, _, _, _)
ApplyFields(kind, e, pairs, k) ==
    IF k > Len(pairs) THEN e ELSE ApplyFields(kind, ApplyField(kind, e, pairs[k]), pairs, k + 1)

\* The entity each branch starts from.
NewEntity(kind) ==
    CASE kind = "LINE" ->
            [type |-> "LINE", layer |-> Str("0"), color |-> 7,
             points |-> << [x |-> 0, y |-> 0], [x |-> 0, y |-> 0] >>]
      [] kind = "CIRCLE" ->
            [type |-> "CIRCLE", layer |-> Str("0"), color |-> 7,
             center |-> [x |-> 0, y |-> 0], radius |-> 0]
      [] kind = "TEXT" ->
            [type |-> "TEXT", layer |-> Str("0"), color |-> 7,
             x |-> 0, y |-> 0, height |-> 10 * Scale, text |-> Str("")]
      [] kind = "POLYLINE" ->
            [type |-> "POLYLINE", layer |-> Str("0"), color |-> 7,
             points |-> <<>>, closed |-> FALSE]
      [] OTHER -> [x |-> 0, y |-> 0]

\* text.length * height * 0.6
GlyphWidth(text, height) ==
    IF height = NaN THEN NaN ELSE RoundDiv(StrLen(text) * height * 6, 10)

\* What follows a LINE's field loop: two updateBounds, then entities.push(line).
PushLine(st, i, line) ==
    [st EXCEPT !.i = i,
               !.b = updateBounds(updateBounds(@, line.points[1].x, line.points[1].y),
                                  line.points[2].x, line.points[2].y),
               !.entities = Append(@, line)]

PushCircle(st, i, circle) ==
    [st EXCEPT !.i = i,
               !.b = updateBounds(
                         updateBounds(@, Minus(circle.center.x, circle.radius),
                                         Minus(circle.center.y, circle.radius)),
                         Plus(circle.center.x, circle.radius),
                         Plus(circle.center.y, circle.radius)),
               !.entities = Append(@, circle)]

\* text.text.length on undefined is a TypeError, which leaves parseDxf.
PushText(st, i, text) ==
    IF text.text = Undefined
    THEN [st EXCEPT !.i = i, !.b = updateBounds(@, text.x, text.y), !.threw = TRUE]
    ELSE [st EXCEPT !.i = i,
                    !.b = updateBounds(updateBounds(@, text.x, text.y),
                                       Plus(text.x, GlyphWidth(text.text, text.height)),
                                       Plus(text.y, text.height)),
                    !.entities = Append(@, text)]

\* poly.points.push({x: vx, y: vy}); updateBounds(vx, vy)
PushVertex(st, i, v) ==
    [st EXCEPT !.i = i, !.poly.points = Append(@, v), !.b = updateBounds(@, v.x, v.y)]

\* The vertex branch: the field loop of one VERTEX, from index i.
ReadVertex(st, r) == PushVertex(st, r.i, ApplyFields("VERTEX", NewEntity("VERTEX"), r.pairs, 1))

RECURSIVE VertexLoop(_, _)
\* while (true) { const vHeader = next(); if (!vHeader) break; ... }
\* st carries i, the polyline being built (poly) and the running bounds (b).
VertexLoop(lines, st) ==
    IF st.i >= Len(lines) THEN st
    ELSE IF Peek(lines, st.i).value = Str("SEQEND") THEN [st EXCEPT !.i = @ + 2]
    ELSE IF Peek(lines, st.i).value = Str("VERTEX")
         THEN VertexLoop(lines, ReadVertex(st, ReadPairs(lines, st.i + 2, <<>>)))
    ELSE VertexLoop(lines, [st EXCEPT !.i = @ + 2])

\* entities.push(poly) once the vertex loop has ended in v.
PushPolyline(st, v) == [st EXCEPT !.i = v.i, !.b = v.b, !.entities = Append(@, v.poly)]

\* The header field loop of a POLYLINE has ended in r: run the vertex loop.
ReadPolyline(lines, st, r) ==
    PushPolyline(st, VertexLoop(lines,
        [i |-> r.i, b |-> st.b,
         poly |-> ApplyFields("POLYLINE", NewEntity("POLYLINE"), r.pairs, 1)]))

\* One field loop has ended in r: build the entity of that kind and push it.
ReadEntity(lines, st, kind, r) ==
    CASE kind = "LINE" -> PushLine(st, r.i, ApplyFields(kind, NewEntity(kind), r.pairs, 1))
      [] kind = "CIRCLE" -> PushCircle(st, r.i, ApplyFields(kind, NewEntity(kind), r.pairs, 1))
      [] kind = "TEXT" -> PushText(st, r.i, ApplyFields(kind, NewEntity(kind), r.pairs, 1))
      [] OTHER -> ReadPolyline(lines, st, r)

\* The entity branch of the main loop: the pair at the head had code 0 and value
\* `type`, and st.i already points after it.  Any other type is skipped.
ParseEntity(lines, st, type) ==
    IF type.k = "str" /\ type.s \in {"LINE", "CIRCLE", "TEXT", "POLYLINE"}
    THEN ReadEntity(lines, st, type.s, ReadPairs(lines, st.i, <<>>))
    ELSE st

\* if (pair.code === 0 && pair.value === 'ENDSEC') inEntities = false;
\* if (inEntities && pair.code === 0) { ... }      with st.i after the pair(s) read
AfterSection(lines, st, pair) ==
    IF pair.code = 0 /\ pair.value = Str("ENDSEC") THEN [st EXCEPT !.inEntities = FALSE]
    ELSE IF st.inEntities /\ pair.code = 0 THEN ParseEntity(lines, st, pair.value)
    ELSE st

\* One iteration of the main loop `while (i < lines.length)`: pair = next(), and
\* after a SECTION pair p2 = next() when there is one.
ParseStep(lines, st) ==
    IF Peek(lines, st.i).code = 0 /\ Peek(lines, st.i).value = Str("SECTION")
    THEN IF st.i + 2 < Len(lines)
         THEN IF Peek(lines, st.i + 2).code = 2 /\ Peek(lines, st.i + 2).value = Str("ENTITIES")
              THEN [st EXCEPT !.i = @ + 4, !.inEntities = TRUE]
              ELSE AfterSection(lines, [st EXCEPT !.i = @ + 4], Peek(lines, st.i))
         ELSE AfterSection(lines, [st EXCEPT !.i = @ + 2], Peek(lines, st.i))
    ELSE AfterSection(lines, [st EXCEPT !.i = @ + 2], Peek(lines, st.i))

RECURSIVE ParseLoop(_, _)
ParseLoop(lines, st) ==
    IF st.i >= Len(lines) \/ st.threw THEN st ELSE ParseLoop(lines, ParseStep(lines, st))

\* The parser's variables before the main loop.
ParseStart ==
    [i |-> 0, inEntities |-> FALSE, entities |-> <<>>, threw |-> FALSE,
     b |-> [minX |-> PosInf, minY |-> PosInf, maxX |-> NegInf, maxY |-> NegInf]]

\* the return without the fallback of line 327
ParseResult_NoFallback(st) ==
    [entities |-> st.entities, bounds |-> st.b, threw |-> st.threw]

\* if (minX === Infinity) { minX=0; maxX=100; minY=0; maxY=100; }  return {...}
ParseResult(st) ==
    [entities |-> st.entities,
     bounds |-> IF st.b.minX = PosInf
                THEN [minX |-> 0, minY |-> 0, maxX |-> 100 * Scale, maxY |-> 100 * Scale]
                ELSE st.b,
     threw |-> st.threw]

\* parseDxf(content): the returned record; threw is TRUE when an exception left it.
parseDxf(text) == ParseResult(ParseLoop(SplitLines(text), ParseStart))

---------------------------------------------------------------------------
(* parseDxf, one loop iteration at a time.  st holds the variables of the call (i,
   inEntities, entities, the bounds b, threw) and where it is: pc names the loop
   ("main", "fields", "vertices", "vfields", then "done"), kind the branch taken, cur
   the entity or vertex whose fields are being read, poly the polyline whose vertices
   are being read, steps the loop iterations and loop exits so far. *)

\* next() leaving the index where it was
Advance_Stuck(i) == i

\* the index after next(): lines[i++] twice
Advance(i) == i + 2

RunStart ==
    [pc |-> "main", kind |-> "", cur |-> NewEntity("VERTEX"), poly |-> NewEntity("POLYLINE"),
     steps |-> 0]
    @@ ParseStart

\* the dispatch reading every record of the section it does not know as a LINE
Dispatch_UnknownAsLine(st, pair) ==
    IF pair.code = 0 /\ pair.value = Str("ENDSEC") THEN [st EXCEPT !.inEntities = FALSE]
    ELSE IF st.inEntities /\ pair.code = 0 /\ pair.value.k = "str"
         THEN IF pair.value.s \in {"CIRCLE", "TEXT", "POLYLINE"}
              THEN [st EXCEPT !.pc = "fields", !.kind = pair.value.s,
                              !.cur = NewEntity(pair.value.s)]
              ELSE [st EXCEPT !.pc = "fields", !.kind = "LINE", !.cur = NewEntity("LINE")]
    ELSE st

\* lines 236-243 and the four `const x: DxfEntity = {...}` initialisers: after the pair
\* (and p2) was read, leave the section, or enter the field loop of a known type
Dispatch(st, pair) ==
    IF pair.code = 0 /\ pair.value = Str("ENDSEC") THEN [st EXCEPT !.inEntities = FALSE]
    ELSE IF /\ st.inEntities /\ pair.code = 0 /\ pair.value.k = "str"
            /\ pair.value.s \in {"LINE", "CIRCLE", "TEXT", "POLYLINE"}
         THEN [st EXCEPT !.pc = "fields", !.kind = pair.value.s, !.cur = NewEntity(pair.value.s)]
    ELSE st

\* one iteration of `while (i < lines.length)` up to the field loop of the entity
MainStep(lines, st) ==
    IF Peek(lines, st.i).code = 0 /\ Peek(lines, st.i).value = Str("SECTION")
    THEN IF Advance(st.i) < Len(lines)
         THEN IF /\ Peek(lines, Advance(st.i)).code = 2
                 /\ Peek(lines, Advance(st.i)).value = Str("ENTITIES")
              THEN [st EXCEPT !.i = Advance(Advance(@)), !.inEntities = TRUE]
              ELSE Dispatch([st EXCEPT !.i = Advance(Advance(@))], Peek(lines, st.i))
         ELSE Dispatch([st EXCEPT !.i = Advance(@)], Peek(lines, st.i))
    ELSE Dispatch([st EXCEPT !.i = Advance(@)], Peek(lines, st.i))

\* the condition of the four field loops and of the vertex field loop: p && p.code !== 0
MoreFields(lines, st) == st.i < Len(lines) /\ Peek(lines, st.i).code # 0

\* one iteration of a field loop: next(), then the assignments of the branch
FieldStep(lines, st) ==
    [st EXCEPT !.i = Advance(@), !.cur = ApplyField(st.kind, @, Peek(lines, st.i))]

\* what follows the field loop of the branch: the entity is pushed, or, for a POLYLINE,
\* the vertex loop begins; a TypeError ends the call
AfterFields(st) ==
    CASE st.kind = "LINE" -> [PushLine(st, st.i, st.cur) EXCEPT !.pc = "main"]
      [] st.kind = "CIRCLE" -> [PushCircle(st, st.i, st.cur) EXCEPT !.pc = "main"]
      [] st.kind = "TEXT" -> [PushText(st, st.i, st.cur) EXCEPT !.pc = "main"]
      [] OTHER -> [st EXCEPT !.pc = "vertices", !.poly = st.cur]

\* one iteration of `while (true)` with a vHeader: SEQEND ends the polyline, VERTEX
\* starts its field loop, anything else is passed over
VertexStep(lines, st) ==
    IF Peek(lines, st.i).value = Str("SEQEND")
    THEN [PushPolyline(st, [st EXCEPT !.i = Advance(@)]) EXCEPT !.pc = "main"]
    ELSE IF Peek(lines, st.i).value = Str("VERTEX")
         THEN [st EXCEPT !.i = Advance(@), !.pc = "vfields", !.kind = "VERTEX",
                         !.cur = NewEntity("VERTEX")]
    ELSE [st EXCEPT !.i = Advance(@)]

---------------------------------------------------------------------------
(* generateFabricationFiles: panels *)

\* an optional field: <<>> when absent, <<x>> when it holds x
None == <<>>
Some(x) == <<x>>

\* the notes left in the case they were written in
ToLowerCase_AsWritten(s) == s

\* s.toLowerCase(), on the notes drawn
ToLowerCase(s) ==
    CASE s = "Flat plate" -> "flat plate"
      [] s = "Outer skin" -> "outer skin"
      [] s = "FLAT" -> "flat"
      [] OTHER -> s

\* s.includes('flat'), on the lower-cased notes drawn
IncludesFlat(s) == s \in {"flat plate", "flat", "shim, flat"}

\* !panel.Notes?.toLowerCase().includes('flat'): absent notes make a tray
isTray(panel) ==
    IF panel.Notes = None THEN TRUE ELSE ~IncludesFlat(ToLowerCase(panel.Notes[1]))

FLANGE == 35 * Scale

\* BEND_DEDUCTION of the panel branch: 1.5
TRAY_BEND_DEDUCTION == 15 * Tenth

\* flat size with one deduction only
FlatSize_OneDeduction(finished) == finished + (2 * FLANGE) - TRAY_BEND_DEDUCTION

\* flatW and flatH: finished + 2 * FLANGE - 2 * BEND_DEDUCTION
FlatSize(finished) == finished + (2 * FLANGE) - (2 * TRAY_BEND_DEDUCTION)

notchSize == FLANGE - (TRAY_BEND_DEDUCTION \div 2)

holeSpacing == 150 * Scale

rivetDia == 4 * Scale

flangeMid == notchSize \div 2

\* size - 2 * notchSize (size is flatW or flatH): the run of a flange between its two notches
Usable(size) == size - 2 * notchSize

\* a count that is never below one
NumHoles_AtLeastOne(size) ==
    IF Usable(size) \div holeSpacing < 1 THEN 1 ELSE Usable(size) \div holeSpacing

\* numHolesX and numHolesY: Math.floor((size - 2 * notchSize) / holeSpacing)
NumHoles(size) == Usable(size) \div holeSpacing

\* holes at the nominal pitch
Spacing_NominalPitch(size) == holeSpacing

\* spacingX and spacingY: (size - 2 * notchSize) / (numHoles + 1)
Spacing(size) == Div(Usable(size), NumHoles(size) + 1)

\* the 12-point polygon of a box with four corner notches
TrayOutline(flatW, flatH) ==
    << <<notchSize, 0>>, <<flatW - notchSize, 0>>,
       <<flatW - notchSize, notchSize>>, <<flatW, notchSize>>,
       <<flatW, flatH - notchSize>>, <<flatW - notchSize, flatH - notchSize>>,
       <<flatW - notchSize, flatH>>, <<notchSize, flatH>>,
       <<notchSize, flatH - notchSize>>, <<0, flatH - notchSize>>,
       <<0, notchSize>>, <<notchSize, notchSize>> >>

\* the four bend lines drawn on the outer edges, not inset
TrayBends_AtEdge(flatW, flatH) ==
    LineRows(0, notchSize, 0, flatH - notchSize, "BEND", 2)
    \o TextRows(Str("UP 90"), notchSize - 5 * Scale, Div(flatH, 2), 35 * Tenth, "TEXT", 90 * Scale)
    \o LineRows(flatW, notchSize, flatW, flatH - notchSize, "BEND", 2)
    \o TextRows(Str("UP 90"), flatW - notchSize + 2 * Scale, Div(flatH, 2), 35 * Tenth,
                "TEXT", 90 * Scale)
    \o LineRows(notchSize, 0, flatW - notchSize, 0, "BEND", 2)
    \o TextRows(Str("UP 90"), Div(flatW, 2), notchSize - 5 * Scale, 35 * Tenth, "TEXT", 0)
    \o LineRows(notchSize, flatH, flatW - notchSize, flatH, "BEND", 2)
    \o TextRows(Str("UP 90"), Div(flatW, 2), flatH - notchSize + 2 * Scale, 35 * Tenth, "TEXT", 0)

\* the four bend lines, each with its "UP 90" text: left, right, bottom, top
TrayBends(flatW, flatH) ==
    LineRows(notchSize, notchSize, notchSize, flatH - notchSize, "BEND", 2)
    \o TextRows(Str("UP 90"), notchSize - 5 * Scale, Div(flatH, 2), 35 * Tenth, "TEXT", 90 * Scale)
    \o LineRows(flatW - notchSize, notchSize, flatW - notchSize, flatH - notchSize, "BEND", 2)
    \o TextRows(Str("UP 90"), flatW - notchSize + 2 * Scale, Div(flatH, 2), 35 * Tenth,
                "TEXT", 90 * Scale)
    \o LineRows(notchSize, notchSize, flatW - notchSize, notchSize, "BEND", 2)
    \o TextRows(Str("UP 90"), Div(flatW, 2), notchSize - 5 * Scale, 35 * Tenth, "TEXT", 0)
    \o LineRows(notchSize, flatH - notchSize, flatW - notchSize, flatH - notchSize, "BEND", 2)
    \o TextRows(Str("UP 90"), Div(flatW, 2), flatH - notchSize + 2 * Scale, 35 * Tenth, "TEXT", 0)

RECURSIVE RivetsX(_, _, _)
\* for (i = 1; i <= numHolesX; i++): a bottom and a top flange hole at x
RivetsX(i, flatW, flatH) ==
    IF i > NumHoles(flatW) THEN <<>>
    ELSE CircleRows(notchSize + i * Spacing(flatW), flangeMid, rivetDia \div 2, "CUT_INNER", 1)
         \o CircleRows(notchSize + i * Spacing(flatW), flatH - flangeMid, rivetDia \div 2,
                       "CUT_INNER", 1)
         \o RivetsX(i + 1, flatW, flatH)

RECURSIVE RivetsY(_, _, _)
\* for (i = 1; i <= numHolesY; i++): a left and a right flange hole at y
RivetsY(i, flatW, flatH) ==
    IF i > NumHoles(flatH) THEN <<>>
    ELSE CircleRows(flangeMid, notchSize + i * Spacing(flatH), rivetDia \div 2, "CUT_INNER", 1)
         \o CircleRows(flatW - flangeMid, notchSize + i * Spacing(flatH), rivetDia \div 2,
                       "CUT_INNER", 1)
         \o RivetsY(i + 1, flatW, flatH)

\* the three dimensions of a tray: flat width, flat height, flange size
TrayDimensions(flatW, flatH) ==
    DimensionRows(0, 0, flatW, 0, Some(flatW), -(50 * Scale))
    \o DimensionRows(flatW, 0, flatW, flatH, Some(flatH), 50 * Scale)
    \o DimensionRows(0, 0, notchSize, 0, Some(FLANGE), -(25 * Scale))

\* the tray branch up to the hole remap: outline, bends, rivet holes, dimensions
DrawTray(c, flatW, flatH) ==
    c \o PolylineRows(TrayOutline(flatW, flatH), "CUT_OUTER", 7, TRUE)
      \o TrayBends(flatW, flatH)
      \o RivetsX(1, flatW, flatH)
      \o RivetsY(1, flatW, flatH)
      \o TrayDimensions(flatW, flatH)

\* the flat plate branch: rectangle and two dimensions
DrawFlatPlate(c, W, H) ==
    c \o PolylineRows(<< <<0, 0>>, <<W, 0>>, <<W, H>>, <<0, H>> >>, "CUT_OUTER", 7, TRUE)
      \o DimensionRows(0, 0, W, 0, Some(W), -(40 * Scale))
      \o DimensionRows(W, 0, W, H, Some(H), 40 * Scale)

\* a remap that moves X only
RemapHole_XOnly(h) == [h EXCEPT !.X = @ + notchSize]

\* h.X += notchSize; h.Y += notchSize
RemapHole(h) == [h EXCEPT !.X = @ + notchSize, !.Y = @ + notchSize]

\* panel.Holes.forEach(h => ...) of the tray branch, on the hole array itself
RemapHoles(holes) == [k \in 1..Len(holes) |-> RemapHole(holes[k])]

\* the part after the panel loop visited it: only a tray with a Holes array changes
PanelAfter(panel) ==
    IF isTray(panel) /\ panel.Holes # None
    THEN [panel EXCEPT !.Holes = Some(RemapHoles(panel.Holes[1]))]
    ELSE panel

\* hole.H || hole.W_or_Dia
HoleHeight(hole) == IF hole.H # None /\ hole.H[1] # 0 THEN hole.H[1] ELSE hole.W_or_Dia

\* the circle or the rectangle of one explicit hole, with its callout
DrawHoleShape(hole, cx, cy, halfW, halfH) ==
    IF hole.Shape = "Circle"
    THEN CircleRows(cx, cy, halfW, "CUT_INNER", 1)
         \o CalloutRows(cx + halfW, cy + halfW, ToFixed1("%%C", hole.W_or_Dia),
                        LeaderLeg(45, 15 * Scale))
    ELSE PolylineRows(<< <<cx - halfW, cy - halfH>>, <<cx + halfW, cy - halfH>>,
                         <<cx + halfW, cy + halfH>>, <<cx - halfW, cy + halfH>> >>,
                      "CUT_INNER", 1, TRUE)
         \o CalloutRows(cx + halfW, cy + halfH, WxH(hole.W_or_Dia, HoleHeight(hole)),
                        LeaderLeg(45, 15 * Scale))

\* the datum dimensions of one explicit hole (idx counts from 0)
DatumDims(cx, cy, idx) ==
    (IF cx > 10 * Scale
     THEN DimensionRows(0, cy, cx, cy, Some(cx), -(cy + 15 * Scale + idx * 10 * Scale))
     ELSE <<>>)
    \o (IF cy > 10 * Scale
        THEN DimensionRows(cx, 0, cx, cy, Some(cy), cx + 15 * Scale + idx * 10 * Scale)
        ELSE <<>>)

RECURSIVE DrawHoles(_, _)
\* panel.Holes.forEach((hole, idx) => ...), k = idx + 1
DrawHoles(holes, k) ==
    IF k > Len(holes) THEN <<>>
    ELSE DrawHoleShape(holes[k], holes[k].X, holes[k].Y,
                       Div(holes[k].W_or_Dia, 2), Div(HoleHeight(holes[k]), 2))
         \o DatumDims(holes[k].X, holes[k].Y, k - 1)
         \o DrawHoles(holes, k + 1)

\* W and H after the geometry branch: the flat size for a tray
PanelW(panel) == IF isTray(panel) THEN FlatSize(panel.Width_mm) ELSE panel.Width_mm
PanelH(panel) == IF isTray(panel) THEN FlatSize(panel.Height_mm) ELSE panel.Height_mm

\* the writer of one panel after the geometry branch
PanelGeometry(panel) ==
    IF isTray(panel)
    THEN DrawTray(header, FlatSize(panel.Width_mm), FlatSize(panel.Height_mm))
    ELSE DrawFlatPlate(header, panel.Width_mm, panel.Height_mm)

\* the writer of one panel after the explicit holes, read after the remap
PanelWithHoles(panel) ==
    IF panel.Holes # None
    THEN PanelGeometry(panel) \o DrawHoles(PanelAfter(panel).Holes[1], 1)
    ELSE PanelGeometry(panel)

\* files.push({...}) of one panel
PanelFile(unitRef, panel) ==
    [ name |-> unitRef \o "_" \o panel.Part_Name \o ".dxf",
      content |->
          toString(addText(PanelWithHoles(panel),
                           Str(unitRef \o " - " \o panel.Part_Name \o " (" \o panel.Material \o ")"),
                           20 * Scale, Div(PanelH(panel), 2), 20 * Scale, "TEXT", 0)).text,
      type |-> "dxf",
      description |-> << Str("Drawing: " \o panel.Part_Name \o " ("), ToFixed0(PanelW(panel)),
                         Str("x"), ToFixed0(PanelH(panel)), Str(")") >> ]

---------------------------------------------------------------------------
(* generateFabricationFiles: profiles, cut list, file list *)

\* name.match(/(\d+)[xX](\d+)(?:[xX](\d+))?/) on the part names drawn: the digit
\* groups that matched as integers, <<>> when there is no match
MatchDims(name) ==
    CASE name = "C-Ch 100x50x15" -> <<100, 50, 15>>
      [] name = "Z 10x3x2" -> <<10, 3, 2>>
      [] name = "U 80X40" -> <<80, 40>>
      [] OTHER -> <<>>

parseProfileDims(name, defaultWeb) ==
    IF MatchDims(name) # <<>>
    THEN [ web |-> MatchDims(name)[1] * Scale,
           flange |-> MatchDims(name)[2] * Scale,
           lip |-> IF Len(MatchDims(name)) = 3 THEN MatchDims(name)[3] * Scale ELSE 0 ]
    ELSE [ web |-> defaultWeb, flange |-> 35 * Scale, lip |-> 15 * Scale ]

\* prof.Height_mm || 100
DefaultWeb(prof) == IF prof.Height_mm # 0 THEN prof.Height_mm ELSE 100 * Scale

\* [lip?, flange, web, flange, lip?]
ProfileSegments(d) ==
    (IF d.lip > 0 THEN <<d.lip>> ELSE <<>>) \o <<d.flange, d.web, d.flange>>
        \o (IF d.lip > 0 THEN <<d.lip>> ELSE <<>>)

\* calculateFlatPattern(segments, 2.0) of one profile
ProfileFlat(prof) ==
    calculateFlatPattern(ProfileSegments(parseProfileDims(prof.Part_Name, DefaultWeb(prof))),
                         2 * Scale)

RECURSIVE BendMarks(_, _, _, _)
\* bendPositions.forEach((pos, idx) => ...), k = idx + 1; prevY is 0 at first and the
\* position of the bend before afterwards
BendMarks(bends, k, length, prevY) ==
    IF k > Len(bends) THEN <<>>
    ELSE LineRows(0, bends[k], length, bends[k], "BEND", 2)
         \o TextRows(Str("UP 90"), 10 * Scale, bends[k] - 2 * Scale, 35 * Tenth, "TEXT", 0)
         \o DimensionRows(0, 0, 0, bends[k], Some(bends[k]),
                          -(30 * Scale) - ((k - 1) * 10 * Scale))
         \o DimensionRows(length, prevY, length, bends[k], Some(bends[k] - prevY), 20 * Scale)
         \o BendMarks(bends, k + 1, length, bends[k])

\* prevY after the bend loop
LastBend(bends) == IF bends = <<>> THEN 0 ELSE bends[Len(bends)]

\* the three closing dimensions of a profile
ProfileDimensions(prevY, length, flatLength) ==
    DimensionRows(length, prevY, length, flatLength, Some(flatLength - prevY), 20 * Scale)
    \o DimensionRows(0, 0, length, 0, Some(length), -(20 * Scale))
    \o DimensionRows(length, 0, length, flatLength, Some(flatLength), 50 * Scale)

\* the writer of one profile before its title
DrawProfile(length, f) ==
    header
    \o PolylineRows(<< <<0, 0>>, <<length, 0>>, <<length, f.flatLength>>, <<0, f.flatLength>> >>,
                    "CUT_OUTER", 7, TRUE)
    \o BendMarks(f.bendPositions, 1, length, 0)
    \o ProfileDimensions(LastBend(f.bendPositions), length, f.flatLength)

\* files.push({...}) of one profile
ProfileFile(unitRef, prof) ==
    [ name |-> unitRef \o "_" \o prof.Part_Name \o "_Flat.dxf",
      content |->
          toString(addText(DrawProfile(prof.Width_mm, ProfileFlat(prof)),
                           Str(prof.Part_Name \o " - FLAT PATTERN"),
                           50 * Scale, Div(ProfileFlat(prof).flatLength, 2), 10 * Scale,
                           "TEXT", 0)).text,
      type |-> "dxf",
      description |-> << Str("Flat Pattern: " \o prof.Part_Name) >> ]

\* one row of the cut list: the cells the template joins with commas
CsvRow(part) ==
    << Str(part.Part_Name), Str(part.Type), NumToString(part.Width_mm),
       NumToString(part.Height_mm), IntToString(part.Qty), Str(part.Material),
       Str(IF part.Notes = None THEN "" ELSE part.Notes[1]) >>

\* the cut list file: the header row, then one row per part
CsvFile(d) ==
    [ name |-> d.Unit_Ref \o "_Production_List.csv",
      content |-> << << Str("Part Name,Type,Width (mm),Height/Length (mm),Qty,Material,Notes") >> >>
                  \o [k \in 1..Len(d.Parts_List) |-> CsvRow(d.Parts_List[k])],
      type |-> "csv",
      description |-> << Str("Master Cut List for all identified parts") >> ]

IsPanel(p) == p.Type = "Panel"
IsProfile(p) == p.Type = "Profile"

\* data.Parts_List.filter(p => p.Type === 'Panel') and its Profile twin
Panels(d) == SelectSeq(d.Parts_List, IsPanel)
Profiles(d) == SelectSeq(d.Parts_List, IsProfile)

\* the profile drawings pushed before the panel drawings
Files_ProfilesFirst(csv, panelFiles, profileFiles) == <<csv>> \o profileFiles \o panelFiles

\* the order of the three groups of files.push calls
Files(csv, panelFiles, profileFiles) == <<csv>> \o panelFiles \o profileFiles

\* every panel drawn with one writer that is never cleared: the file of a later panel
\* begins with the drawing of the first
generateFabricationFiles_OneWriter(d) ==
    Files(CsvFile(d),
          [k \in 1..Len(Panels(d)) |->
              IF k = 1 THEN PanelFile(d.Unit_Ref, Panels(d)[k])
              ELSE [PanelFile(d.Unit_Ref, Panels(d)[k]) EXCEPT
                       !.content = PanelFile(d.Unit_Ref, Panels(d)[1]).content \o @]],
          [k \in 1..Len(Profiles(d)) |-> ProfileFile(d.Unit_Ref, Profiles(d)[k])])

\* the list generateFabricationFiles returns
generateFabricationFiles(d) ==
    Files(CsvFile(d),
          [k \in 1..Len(Panels(d)) |-> PanelFile(d.Unit_Ref, Panels(d)[k])],
          [k \in 1..Len(Profiles(d)) |-> ProfileFile(d.Unit_Ref, Profiles(d)[k])])

\* the record generateFabricationFiles leaves behind: panels visited, the rest untouched
DataAfter(d) ==
    [d EXCEPT !.Parts_List =
        [k \in 1..Len(d.Parts_List) |->
            IF IsPanel(d.Parts_List[k]) THEN PanelAfter(d.Parts_List[k]) ELSE d.Parts_List[k]]]

---------------------------------------------------------------------------
(* Bounds and input sets *)

\* the longest segment list drawn
MaxSegs == 5

\* the most add* calls made on the writer under test
MaxAdds == 2

\* the most toString() calls made on the writer under test
MaxRenders == 2

\* segment lengths: below, at and above the bend deduction 2t of the thicknesses drawn
SegVals == {3 * Scale, 4 * Scale, 15 * Scale, 50 * Scale}

\* 0.8 mm, 1.5 mm and the default 2.0 mm
ThickVals == {8 * Tenth, 15 * Tenth, 2 * Scale}

SegLists == UNION {[1..n -> SegVals] : n \in 2..MaxSegs}

\* coordinates with more than three decimals, a negative tie, exact values
LineVals ==
    { [p |-> <<1005 * Tenth, 740736>>, q |-> <<-420030, 25 * Scale>>, layer |-> "BEND", color |-> 2],
      [p |-> <<-420030, 25 * Scale>>, q |-> <<-420030, 25 * Scale>>, layer |-> "DIMENSIONS", color |-> 3] }

PolyVals ==
    { [points |-> <<>>, layer |-> "0", color |-> 7, closed |-> TRUE],
      [points |-> << <<0, 0>>, <<1005 * Tenth, 740736>> >>,
       layer |-> "CUT_INNER", color |-> 1, closed |-> FALSE],
      [points |-> << <<0, 0>>, <<200 * Scale, 0>>, <<200 * Scale, 6000020>>, <<-420030, 100 * Scale>> >>,
       layer |-> "CUT_OUTER", color |-> 7, closed |-> TRUE] }

CircleVals ==
    { [c |-> <<-420030, 25 * Scale>>, radius |-> 375020, layer |-> "CUT_INNER", color |-> 1] }

TextVals ==
    { [text |-> Str("UP 90"), p |-> <<1005 * Tenth, 740736>>, height |-> 35 * Tenth,
       layer |-> "TEXT", rotation |-> 90 * Scale],
      [text |-> Str("  PLATE A "), p |-> <<-420030, 25 * Scale>>, height |-> 20 * Scale,
       layer |-> "TEXT", rotation |-> 0] }

Dim(p, q, value, offset) == [p |-> p, q |-> q, value |-> value, offset |-> offset]

\* addDimension arguments.  Points 0, 0.05 and 0.09 apart (the second pair on a slant);
\* points 0.11 apart; segments pointing right, left, up and down and into each
\* quadrant; offsets of both signs and zero; with and without the explicit value.
DimVals ==
    { Dim(<<10 * Scale, 20 * Scale>>, <<10 * Scale, 20 * Scale>>, <<>>, 20 * Scale),
      Dim(<<10 * Scale, 20 * Scale>>, <<10 * Scale + 3 * Milli * 10, 20 * Scale + 4 * Milli * 10>>,
          <<250 * Scale>>, -(15 * Scale)),
      Dim(<<0, 0>>, <<-(90 * Milli), 0>>, <<>>, 0),
      Dim(<<0, 0>>, <<0, 110 * Milli>>, <<>>, 20 * Scale),
      Dim(<<0, 0>>, <<200 * Scale, 0>>, <<>>, -(15 * Scale)),
      Dim(<<200 * Scale, 50 * Scale>>, <<0, 50 * Scale>>, <<>>, 20 * Scale),
      Dim(<<0, 0>>, <<0, 100 * Scale>>, <<1005 * Tenth>>, 20 * Scale),
      Dim(<<0, 100 * Scale>>, <<0, 0>>, <<>>, 0),
      Dim(<<0, 0>>, <<30 * Scale, 40 * Scale>>, <<>>, 20 * Scale),
      Dim(<<0, 0>>, <<-(30 * Scale), 40 * Scale>>, <<>>, -(15 * Scale)),
      Dim(<<0, 0>>, <<-(40 * Scale), -(30 * Scale)>>, <<123 * Scale>>, 20 * Scale),
      Dim(<<0, 0>>, <<40 * Scale, -(30 * Scale)>>, <<>>, 20 * Scale) }

\* the most parts in a project record
MaxParts == 2

\* the most generateFabricationFiles calls made on one project record
MaxRuns == 2

CircleHole(x, y, dia) == [Shape |-> "Circle", X |-> x, Y |-> y, W_or_Dia |-> dia, H |-> None]
RectHole(x, y, w, h) == [Shape |-> "Rect", X |-> x, Y |-> y, W_or_Dia |-> w, H |-> h]

Part(name, type, w, h, notes, holes) ==
    [ Part_Name |-> name, Type |-> type, Material |-> "GI 0.8mm", Qty |-> 2,
      Width_mm |-> w, Height_mm |-> h, Notes |-> notes, Holes |-> holes ]

\* trays with one, two and four rivets per flange, with no usable run (1.5 wide) and with
\* less than none (1 wide), with and without holes; flat plates with holes, without, and
\* 0.05 wide; profiles whose name carries three, two or no dimensions, and one whose
\* lips and flanges are shorter than the bend deduction
PartVals ==
    { Part("Side_Panel", "Panel", 300 * Scale, 200 * Scale, None, None),
      Part("Top_Panel", "Panel", 400 * Scale, 650 * Scale, Some("Outer skin"),
           Some(<< CircleHole(50 * Scale, 40 * Scale, 12 * Scale),
                   RectHole(120 * Scale, 8 * Scale, 30 * Scale, None) >>)),
      Part("Strip", "Panel", 15 * Tenth, 100 * Scale, None, Some(<<>>)),
      Part("Sliver", "Panel", 1 * Scale, 1515 * Tenth, None, None),
      Part("Plate_A", "Panel", 200 * Scale, 100 * Scale, Some("Flat plate"),
           Some(<< RectHole(60 * Scale, 50 * Scale, 30 * Scale, Some(20 * Scale)),
                   CircleHole(5 * Scale, 5 * Scale, 65 * Tenth) >>)),
      Part("Cover", "Panel", 250 * Scale, 1205 * Tenth, Some("FLAT"), None),
      Part("Shim", "Panel", 50 * Milli, 80 * Scale, Some("shim, flat"), Some(<<>>)),
      Part("C-Ch 100x50x15", "Profile", 1200 * Scale, 100 * Scale, None, None),
      Part("Base_Rail", "Profile", 600 * Scale, 0, None,
           Some(<< CircleHole(30 * Scale, 20 * Scale, 8 * Scale) >>)),
      Part("U 80X40", "Profile", 500 * Scale, 80 * Scale, Some("Flat plate"), None),
      Part("Z 10x3x2", "Profile", 300 * Scale, 0, None, None) }

PartLists == UNION {[1..n -> PartVals] : n \in 0..MaxParts}

\* the most records after the section marker in a text handed to parseDxf
MaxRecs == 3

F3(v) == [k |-> "f3", s |-> "", v |-> v, w |-> 0]

\* The lines of one record of a drawing text: entities as the writer prints them (fewer
\* fields), entities with a value that is no number where a number belongs, a record of
\* a type the parser does not know, the end of a section, another section.
RecordLines(rec) ==
    CASE rec = "LINE" ->
            << Str("0"), Str("LINE"), Str("10"), F3(5000), Str("20"), F3(7500),
               Str("11"), F3(40000), Str("21"), F3(-3250) >>
      [] rec = "TEXT" ->
            << Str("0"), Str("TEXT"), Str("10"), F3(-2000), Str("20"), F3(1000),
               Str("40"), F3(3500), Str("1"), Str("HELLO") >>
      [] rec = "POLYLINE" ->
            << Str("0"), Str("POLYLINE"), Str("70"), Str("1"),
               Str("0"), Str("VERTEX"), Str("10"), F3(60000), Str("20"), F3(-8000),
               Str("0"), Str("VERTEX"), Str("20"), F3(90000),
               Str("0"), Str("SEQEND") >>
      [] rec = "ARC" ->
            << Str("0"), Str("ARC"), Str("10"), F3(-500000), Str("40"), F3(9999000) >>
      [] rec = "ENDSEC" ->
            << Str("0"), Str("ENDSEC") >>
      [] rec = "TABLES" ->
            << Str("0"), Str("SECTION"), Str("2"), Str("TABLES"),
               Str("0"), Str("LAYER"), Str("2"), Str("CUT_OUTER"), Str("70"), Str("0") >>
      [] rec = "CIRCLE" ->
            << Str("0"), Str("CIRCLE"), Str("10"), F3(10500), Str("20"), F3(-30000),
               Str("40"), F3(25000) >>
      [] rec = "LINE_NOX" ->
            << Str("0"), Str("LINE"), Str("10"), Str("abc"), Str("20"), F3(-20000),
               Str("11"), Str(""), Str("21"), F3(30000) >>
      [] rec = "LINE_NOY" ->
            << Str("0"), Str("LINE"), Str("10"), F3(-70000), Str("20"), Str("n/a"),
               Str("11"), F3(80000), Str("21"), Str("abc") >>
      [] rec = "CIRCLE_NOR" ->
            << Str("0"), Str("CIRCLE"), Str("10"), F3(200000), Str("20"), F3(200000),
               Str("40"), Str("abc") >>
      [] rec = "TEXT_NOH" ->
            << Str("0"), Str("TEXT"), Str("10"), F3(-90000), Str("20"), F3(95000),
               Str("40"), Str("tall"), Str("1"), Str("AB") >>

\* records of known and of unknown types, inside and (after ENDSEC) outside ENTITIES
ForeignRecs == {"TEXT", "POLYLINE", "ARC", "ENDSEC", "TABLES"}

\* entities with and without a value that is no number
BadRecs == {"LINE", "CIRCLE", "LINE_NOX", "LINE_NOY", "CIRCLE_NOR", "TEXT_NOH"}

\* how many lines are missing at the end of a text that was cut short
CutVals == {0, 1, 2}

\* the texts handed to parseDxf: the ENTITIES marker, up to MaxRecs records, and the
\* whole of it or all but its last one or two lines
InputVals ==
    {[recs |-> l, cut |-> c] : l \in UNION {[1..n -> ForeignRecs] : n \in 0..MaxRecs}, c \in CutVals}
    \cup {[recs |-> l, cut |-> 0] : l \in UNION {[1..n -> BadRecs] : n \in 0..MaxRecs}}

RECURSIVE RecsLines(_, _)
RecsLines(recs, k) ==
    IF k > Len(recs) THEN <<>> ELSE RecordLines(recs[k]) \o RecsLines(recs, k + 1)

\* the text of an input, line by line
InputText(in) ==
    SubSeq(<< Str("0"), Str("SECTION"), Str("2"), Str("ENTITIES") >> \o RecsLines(in.recs, 1),
           1, 4 + Len(RecsLines(in.recs, 1)) - in.cut)

---------------------------------------------------------------------------
(* The state before anything ran *)

NoFlat == [done |-> FALSE, flatLength |-> 0, bendPositions |-> <<>>]

NoParse == [of |-> 0, entities |-> <<>>, threw |-> FALSE,
            bounds |-> [minX |-> 0, minY |-> 0, maxX |-> 0, maxY |-> 0]]

NoData == [Unit_Ref |-> "", Parts_List |-> <<>>]

NoInput == [recs |-> <<>>, cut |-> 0]

NoRun == [pc |-> "idle"]

IdleFlat == segments = <<>> /\ thickness = 0 /\ flat = NoFlat

IdleDxf == content = <<>> /\ appended = <<>> /\ renders = <<>> /\ parsed = NoParse

IdleGen == data = NoData /\ data0 = NoData /\ outputs = <<>>

IdleRun == input = NoInput /\ run = NoRun

NoApp == [step |-> "unmounted"]

IdleApp == app = NoApp

---------------------------------------------------------------------------
(* calculateFlatPattern applied to drawn arguments *)

InitFlat ==
    /\ segments \in SegLists
    /\ thickness \in ThickVals
    /\ flat = NoFlat
    /\ IdleDxf
    /\ IdleGen
    /\ IdleRun
    /\ IdleApp

Flatten ==
    /\ ~flat.done
    /\ LET r == calculateFlatPattern(segments, thickness)
       IN  flat' = [done |-> TRUE, flatLength |-> r.flatLength, bendPositions |-> r.bendPositions]
    /\ UNCHANGED <<segments, thickness, content, appended, renders, parsed, data, data0, outputs, input, run, app>>

NextFlat == Flatten

SpecFlat == InitFlat /\ [][NextFlat]_vars

---------------------------------------------------------------------------
(* One writer: add* calls, toString() calls, parseDxf of the last text *)

InitDxf ==
    /\ content = header
    /\ appended = <<>>
    /\ renders = <<>>
    /\ parsed = NoParse
    /\ IdleFlat
    /\ IdleGen
    /\ IdleRun
    /\ IdleApp

AddLine ==
    /\ Len(appended) < MaxAdds
    /\ \E a \in LineVals :
         /\ content' = addLine(content, a.p[1], a.p[2], a.q[1], a.q[2], a.layer, a.color)
         /\ appended' = Append(appended, [type |-> "LINE"] @@ a)
    /\ UNCHANGED <<segments, thickness, flat, renders, parsed, data, data0, outputs, input, run, app>>

AddPolyline ==
    /\ Len(appended) < MaxAdds
    /\ \E a \in PolyVals :
         /\ content' = addPolyline(content, a.points, a.layer, a.color, a.closed)
         /\ appended' = Append(appended, [type |-> "POLYLINE"] @@ a)
    /\ UNCHANGED <<segments, thickness, flat, renders, parsed, data, data0, outputs, input, run, app>>

AddCircle ==
    /\ Len(appended) < MaxAdds
    /\ \E a \in CircleVals :
         /\ content' = addCircle(content, a.c[1], a.c[2], a.radius, a.layer, a.color)
         /\ appended' = Append(appended, [type |-> "CIRCLE"] @@ a)
    /\ UNCHANGED <<segments, thickness, flat, renders, parsed, data, data0, outputs, input, run, app>>

AddText ==
    /\ Len(appended) < MaxAdds
    /\ \E a \in TextVals :
         /\ content' = addText(content, a.text, a.p[1], a.p[2], a.height, a.layer, a.rotation)
         /\ appended' = Append(appended, [type |-> "TEXT"] @@ a)
    /\ UNCHANGED <<segments, thickness, flat, renders, parsed, data, data0, outputs, input, run, app>>

\* toString(): nAdds records how many add* calls preceded it
Render ==
    /\ Len(renders) < MaxRenders
    /\ LET r == toString(content)
       IN  /\ content' = r.buffer
           /\ renders' = Append(renders, [text |-> r.text, nAdds |-> Len(appended)])
    /\ UNCHANGED <<segments, thickness, flat, appended, parsed, data, data0, outputs, input, run, app>>

\* parseDxf of the text the last toString() returned
Parse ==
    /\ renders # <<>>
    /\ parsed.of # Len(renders)
    /\ parsed' = [of |-> Len(renders)] @@ parseDxf(renders[Len(renders)].text)
    /\ UNCHANGED <<segments, thickness, flat, content, appended, renders, data, data0, outputs, input, run, app>>

NextDxf == AddLine \/ AddPolyline \/ AddCircle \/ AddText \/ Render \/ Parse

SpecDxf == InitDxf /\ [][NextDxf]_vars

---------------------------------------------------------------------------
(* One project record: generateFabricationFiles called on it again and again *)

InitGen ==
    /\ data \in {[Unit_Ref |-> "AHU-01", Parts_List |-> l] : l \in PartLists}
    /\ data0 = data
    /\ outputs = <<>>
    /\ IdleFlat
    /\ IdleDxf
    /\ IdleRun
    /\ IdleApp

\* generateFabricationFiles(data): the list it returns, and the record it leaves
Generate ==
    /\ Len(outputs) < MaxRuns
    /\ outputs' = Append(outputs, generateFabricationFiles(data))
    /\ data' = DataAfter(data)
    /\ UNCHANGED <<data0, segments, thickness, flat, content, appended, renders, parsed, input, run, app>>

NextGen == Generate

SpecGen == InitGen /\ [][NextGen]_vars

---------------------------------------------------------------------------
(* One writer: addLine and addDimension calls *)

AddDimension ==
    /\ Len(appended) < MaxAdds
    /\ \E a \in DimVals :
         /\ content' = addDimension(content, a.p[1], a.p[2], a.q[1], a.q[2], a.value, a.offset)
         /\ appended' = Append(appended, [type |-> "DIMENSION"] @@ a)
    /\ UNCHANGED <<segments, thickness, flat, renders, parsed, data, data0, outputs, input, run, app>>

NextDim == AddLine \/ AddDimension

SpecDim == InitDxf /\ [][NextDim]_vars

---------------------------------------------------------------------------
(* One parseDxf call on a drawn text, followed loop iteration by loop iteration *)

InitParse ==
    /\ input \in InputVals
    /\ run = RunStart
    /\ IdleFlat
    /\ IdleDxf
    /\ IdleGen
    /\ IdleApp

Rest == <<segments, thickness, flat, content, appended, renders, data, data0, outputs, input, app>>

\* while (i < lines.length) { const pair = next(); ... }
MainIter ==
    /\ run.pc = "main" /\ ~run.threw
    /\ \E lines \in {SplitLines(InputText(input))} :
         /\ run.i < Len(lines)
         /\ run' = [MainStep(lines, run) EXCEPT !.steps = @ + 1]
    /\ UNCHANGED <<Rest, parsed>>

\* the main loop ends, or an exception leaves the call: lines 327-328
MainExit ==
    /\ run.pc = "main"
    /\ run.threw \/ run.i >= Len(InputText(input))
    /\ run' = [run EXCEPT !.pc = "done", !.steps = @ + 1]
    /\ parsed' = [of |-> 1] @@ ParseResult(run)
    /\ UNCHANGED Rest

\* while (p && p.code !== 0) { next(); ...; p = peek(); }  of an entity
FieldIter ==
    /\ run.pc = "fields"
    /\ \E lines \in {SplitLines(InputText(input))} :
         /\ MoreFields(lines, run)
         /\ run' = [FieldStep(lines, run) EXCEPT !.steps = @ + 1]
    /\ UNCHANGED <<Rest, parsed>>

FieldExit ==
    /\ run.pc = "fields"
    /\ ~MoreFields(SplitLines(InputText(input)), run)
    /\ run' = [AfterFields(run) EXCEPT !.steps = @ + 1]
    /\ UNCHANGED <<Rest, parsed>>

\* while (true) { const vHeader = next(); if (!vHeader) break; ... }
VertexIter ==
    /\ run.pc = "vertices"
    /\ \E lines \in {SplitLines(InputText(input))} :
         /\ run.i < Len(lines)
         /\ run' = [VertexStep(lines, run) EXCEPT !.steps = @ + 1]
    /\ UNCHANGED <<Rest, parsed>>

\* if (!vHeader) break;  entities.push(poly)
VertexExit ==
    /\ run.pc = "vertices"
    /\ run.i >= Len(InputText(input))
    /\ run' = [PushPolyline(run, run) EXCEPT !.pc = "main", !.steps = @ + 1]
    /\ UNCHANGED <<Rest, parsed>>

\* while (vp && vp.code !== 0) { next(); ...; vp = peek(); }
VFieldIter ==
    /\ run.pc = "vfields"
    /\ \E lines \in {SplitLines(InputText(input))} :
         /\ MoreFields(lines, run)
         /\ run' = [FieldStep(lines, run) EXCEPT !.steps = @ + 1]
    /\ UNCHANGED <<Rest, parsed>>

\* poly.points.push({x: vx, y: vy}); updateBounds(vx, vy)
VFieldExit ==
    /\ run.pc = "vfields"
    /\ ~MoreFields(SplitLines(InputText(input)), run)
    /\ run' = [PushVertex(run, run.i, run.cur) EXCEPT !.pc = "vertices", !.steps = @ + 1]
    /\ UNCHANGED <<Rest, parsed>>

NextParse ==
    \/ MainIter \/ MainExit \/ FieldIter \/ FieldExit
    \/ VertexIter \/ VertexExit \/ VFieldIter \/ VFieldExit

SpecParse == InitParse /\ [][NextParse]_vars

---------------------------------------------------------------------------
(* App: the upload handler, the reader callback and the two reset buttons *)

\* enum ProcessingStep
ProcessingStep ==
    [IDLE |-> "IDLE", READING |-> "READING_PDF", EXTRACTING |-> "AI_EXTRACTION",
     CALCULATING |-> "GEOMETRY_ENGINE", COMPLETE |-> "COMPLETE", ERROR |-> "ERROR"]

\* event.target.files?.[0]: no file, a PDF, a file of another type
FileVals == {"none", "application/pdf", "image/png"}

\* what JSON.parse hands back: a project record, or an object without a part list
NoPartList == [Unit_Ref |-> "AHU-01"]
ExtractVals == {[Unit_Ref |-> "AHU-01", Parts_List |-> l] : l \in PartLists} \cup {NoPartList}

\* data.Parts_List.forEach(...) throws a TypeError on an object without a part list
GenerationThrows(d) == "Parts_List" \notin DOMAIN d

\* the file input accepts a file whatever the step
UploadEnabled_Always(step) == TRUE

\* disabled={step !== ProcessingStep.IDLE} on the file input
UploadEnabled(step) == step = ProcessingStep.IDLE

\* the catch block of the reader callback
Caught(a) ==
    [a EXCEPT !.step = ProcessingStep.ERROR,
              !.errorMsg = "Failed to process. Ensure API Key is set and PDF is readable.",
              !.pc = "idle"]

\* useState initial values; no upload is under way
InitApp ==
    /\ app = [step |-> ProcessingStep.IDLE, extractedData |-> None, files |-> <<>>,
              errorMsg |-> "", pc |-> "idle", received |-> None]
    /\ IdleFlat
    /\ IdleDxf
    /\ IdleGen
    /\ IdleRun

AppRest == <<segments, thickness, flat, content, appended, renders, parsed, data, data0,
             outputs, input, run>>

\* handleFileUpload up to reader.readAsDataURL(file)
HandleFileUpload ==
    /\ UploadEnabled(app.step)
    /\ \E file \in FileVals :
         app' = IF file = "none" THEN app
                ELSE IF file # "application/pdf"
                     THEN [app EXCEPT !.errorMsg = "Please upload a PDF file."]
                     ELSE [app EXCEPT !.step = ProcessingStep.READING, !.errorMsg = "",
                                      !.pc = "reading"]
    /\ UNCHANGED AppRest

\* reader.onload up to the await of processPdfWithGemini
ReaderOnLoad ==
    /\ app.pc = "reading"
    /\ app' = [app EXCEPT !.step = ProcessingStep.EXTRACTING, !.pc = "extracting"]
    /\ UNCHANGED AppRest

\* processPdfWithGemini settles: setExtractedData(data) and the step before the delay,
\* or the catch block when it rejects
Extracted ==
    /\ app.pc = "extracting"
    /\ \/ \E d \in ExtractVals :
            app' = [app EXCEPT !.extractedData = Some(d), !.received = Some(d),
                               !.step = ProcessingStep.CALCULATING, !.pc = "calculating"]
       \/ app' = Caught(app)
    /\ UNCHANGED AppRest

\* after the delay: generateFabricationFiles(data), which rewrites the record the state
\* holds, then setFiles and the last step; or the catch block when the call throws
Calculated ==
    /\ app.pc = "calculating"
    /\ app' = IF GenerationThrows(app.extractedData[1]) THEN Caught(app)
              ELSE [app EXCEPT !.files = generateFabricationFiles(app.extractedData[1]),
                               !.extractedData = Some(DataAfter(app.extractedData[1])),
                               !.step = ProcessingStep.COMPLETE, !.pc = "idle"]
    /\ UNCHANGED AppRest

\* the Try Again button, rendered while the step is ERROR
TryAgain ==
    /\ app.step = ProcessingStep.ERROR
    /\ app' = [app EXCEPT !.step = ProcessingStep.IDLE]
    /\ UNCHANGED AppRest

\* the Process Another Document button, rendered while the step is COMPLETE and
\* extractedData is set
ProcessAnother ==
    /\ app.step = ProcessingStep.COMPLETE /\ app.extractedData # None
    /\ app' = [app EXCEPT !.step = ProcessingStep.IDLE, !.extractedData = None, !.files = <<>>]
    /\ UNCHANGED AppRest

NextApp ==
    \/ HandleFileUpload \/ ReaderOnLoad \/ Extracted \/ Calculated
    \/ TryAgain \/ ProcessAnother

SpecApp == InitApp /\ [][NextApp]_vars

---------------------------------------------------------------------------
(* Properties of calculateFlatPattern (SpecFlat) *)

RECURSIVE PrefixSum(_, _)
\* segs[1] + ... + segs[i]
PrefixSum(segs, i) == IF i = 0 THEN 0 ELSE PrefixSum(segs, i - 1) + segs[i]

\* C1: for n >= 2 segments and thickness t, flatLength = sum(segments) - (n-1)*2t and
\* bendPositions has exactly n-1 entries, entry i (zero-based) being
\* segments[0] + ... + segments[i] - (2t*i + t).
C1_FlatLengthAndBends ==
    flat.done =>
        LET n == Len(segments)
        IN  /\ flat.flatLength = PrefixSum(segments, n) - (n - 1) * 2 * thickness
            /\ Len(flat.bendPositions) = n - 1
            /\ \A i \in 0..(n - 2) :
                 flat.bendPositions[i + 1] =
                     PrefixSum(segments, i + 1) - (2 * thickness * i + thickness)

\* a list of at least three segments has been flattened
C1_Witness == flat.done /\ Len(segments) >= 3 /\ thickness = 2 * Scale

\* C2 as stated: the bend positions returned are strictly increasing.
C2_StrictlyIncreasing ==
    flat.done =>
        \A i \in 1..(Len(flat.bendPositions) - 1) :
            flat.bendPositions[i] < flat.bendPositions[i + 1]

\* C2 amended: consecutive bend positions differ by the segment between them less one
\* bend deduction, so bendPositions[i] < bendPositions[i+1] exactly when that segment
\* is longer than 2t; the list is strictly increasing iff every interior segment is.
C2_IncreasingIffSegmentExceedsDeduction ==
    flat.done =>
        \A i \in 1..(Len(flat.bendPositions) - 1) :
            (flat.bendPositions[i] < flat.bendPositions[i + 1])
                <=> (segments[i + 1] > 2 * thickness)

\* a list whose interior segments are all longer than 2t has been flattened, and
\* it has at least two bends
C2_Witness ==
    /\ flat.done
    /\ Len(segments) >= 3
    /\ \A i \in 2..(Len(segments) - 1) : segments[i] > 2 * thickness
    /\ \A i \in 1..(Len(flat.bendPositions) - 1) :
         flat.bendPositions[i] < flat.bendPositions[i + 1]

---------------------------------------------------------------------------
(* Properties of the writer and the parser (SpecDxf) *)

\* v is a whole number of thousandths, the nearest one to the original value
RoundedTo3(v, orig) == v % Milli = 0 /\ 2 * Abs(v - orig) <= Milli

\* the parsed entity e is what the call produced
EntityMatches(call, e) ==
    /\ e.type = call.type
    /\ e.layer = Str(call.layer)
    /\ CASE call.type = "LINE" ->
              /\ Len(e.points) = 2
              /\ RoundedTo3(e.points[1].x, call.p[1]) /\ RoundedTo3(e.points[1].y, call.p[2])
              /\ RoundedTo3(e.points[2].x, call.q[1]) /\ RoundedTo3(e.points[2].y, call.q[2])
         [] call.type = "POLYLINE" ->
              /\ e.closed = call.closed
              /\ Len(e.points) = Len(call.points)
              /\ \A k \in 1..Len(call.points) :
                   /\ RoundedTo3(e.points[k].x, call.points[k][1])
                   /\ RoundedTo3(e.points[k].y, call.points[k][2])
         [] call.type = "CIRCLE" ->
              /\ RoundedTo3(e.center.x, call.c[1]) /\ RoundedTo3(e.center.y, call.c[2])
              /\ RoundedTo3(e.radius, call.radius)
         [] OTHER ->
              /\ RoundedTo3(e.x, call.p[1]) /\ RoundedTo3(e.y, call.p[2])

\* the writer was rendered once, after all its add* calls, and that text was parsed
RenderedOnceAndParsed ==
    /\ Len(renders) = 1
    /\ renders[1].nAdds = Len(appended)
    /\ parsed.of = 1

\* C3: add* calls on a fresh writer, one toString(), then parseDxf of the text: as many
\* entities as calls, in the same order, of the same types and layers, with the same
\* closed flag and vertex count, and coordinates and radius rounded to three decimals.
C3_RoundTrip ==
    RenderedOnceAndParsed =>
        /\ ~parsed.threw
        /\ Len(parsed.entities) = Len(appended)
        /\ \A k \in 1..Len(appended) : EntityMatches(appended[k], parsed.entities[k])

\* a round trip of at least two entities, one of them a polyline with vertices, one of
\* them carrying a coordinate that three decimals cannot hold
C3_Witness ==
    /\ RenderedOnceAndParsed
    /\ Len(appended) >= 2
    /\ \E k \in 1..Len(appended) : appended[k].type = "POLYLINE" /\ Len(appended[k].points) >= 2
    /\ \E k \in 1..Len(appended) : appended[k].type = "CIRCLE" /\ appended[k].radius % Milli # 0

\* C4 as stated: two toString() calls with no add* call between them return the same text.
C4_RenderTwiceSameText ==
    \A k \in 1..(Len(renders) - 1) :
        renders[k].nAdds = renders[k + 1].nAdds => renders[k].text = renders[k + 1].text

---------------------------------------------------------------------------
(* Properties of generateFabricationFiles (SpecGen) *)

\* FLANGE - D/2 for FLANGE = 35 and D = 1.5
NotchOffset == 3425 * (Scale \div 100)

RECURSIVE PartsOfType(_, _)
\* the parts of the list that have the type, in list order
PartsOfType(parts, type) ==
    IF parts = <<>> THEN <<>>
    ELSE (IF Head(parts).Type = type THEN <<Head(parts)>> ELSE <<>>)
         \o PartsOfType(Tail(parts), type)

\* the panels and the profiles of the record as it was handed over
Panels0 == PartsOfType(data0.Parts_List, "Panel")
Profiles0 == PartsOfType(data0.Parts_List, "Profile")

\* the drawing of panel i in the list run r returned, read back
PanelDrawing(r, i) == parseDxf(outputs[r][1 + i].content)

\* panel i of the record is a tray
TrayAt(i) == isTray(Panels0[i])

\* C5 as stated: two calls in succession on the same record return lists with the same
\* names and the same contents.
C5_TwoRunsSameFiles ==
    Len(outputs) >= 2 =>
        /\ Len(outputs[1]) = Len(outputs[2])
        /\ \A k \in 1..Len(outputs[1]) :
             /\ outputs[1][k].name = outputs[2][k].name
             /\ outputs[1][k].content = outputs[2][k].content

\* the hole moved by d along X and along Y
Shifted(h, d) == [h EXCEPT !.X = @ + d, !.Y = @ + d]

\* the part with every hole moved by d, everything else as it was
WithHolesShifted(part, d) ==
    [part EXCEPT !.Holes = Some([j \in 1..Len(part.Holes[1]) |-> Shifted(part.Holes[1][j], d)])]

\* C6: each invocation adds the notch offset FLANGE - D/2 once to X and to Y of every
\* hole of every tray panel, and changes nothing else of the record: after r invocations
\* the holes of tray panels stand r offsets from where they were, and flat panels,
\* profiles and all other fields are as they were handed over.
C6_TrayHolesShiftedOncePerRun ==
    /\ data.Unit_Ref = data0.Unit_Ref
    /\ Len(data.Parts_List) = Len(data0.Parts_List)
    /\ \A k \in 1..Len(data0.Parts_List) :
         IF /\ data0.Parts_List[k].Type = "Panel"
            /\ isTray(data0.Parts_List[k])
            /\ data0.Parts_List[k].Holes # None
         THEN data.Parts_List[k] =
                  WithHolesShifted(data0.Parts_List[k], Len(outputs) * NotchOffset)
         ELSE data.Parts_List[k] = data0.Parts_List[k]

\* one invocation ran on a record holding a tray with holes and a part that is not a
\* tray and has holes too
C6_Witness ==
    /\ Len(outputs) = 1
    /\ \E k \in 1..Len(data0.Parts_List) :
         /\ data0.Parts_List[k].Type = "Panel" /\ isTray(data0.Parts_List[k])
         /\ data0.Parts_List[k].Holes # None /\ data0.Parts_List[k].Holes[1] # <<>>
         /\ data.Parts_List[k].Holes[1][1].X = data0.Parts_List[k].Holes[1][1].X + NotchOffset
    /\ \E k \in 1..Len(data0.Parts_List) :
         /\ ~(data0.Parts_List[k].Type = "Panel" /\ isTray(data0.Parts_List[k]))
         /\ data0.Parts_List[k].Holes # None /\ data0.Parts_List[k].Holes[1] # <<>>

\* C7: every list returned holds 1 + panels + profiles files: the cut list first, then
\* one drawing per panel in part-list order, then one per profile in part-list order.
C7_CutListPanelsProfiles ==
    \A r \in 1..Len(outputs) :
        /\ Len(outputs[r]) = 1 + Len(Panels0) + Len(Profiles0)
        /\ outputs[r][1].type = "csv"
        /\ outputs[r][1].name = data0.Unit_Ref \o "_Production_List.csv"
        /\ \A i \in 1..Len(Panels0) :
             /\ outputs[r][1 + i].type = "dxf"
             /\ outputs[r][1 + i].name = data0.Unit_Ref \o "_" \o Panels0[i].Part_Name \o ".dxf"
        /\ \A j \in 1..Len(Profiles0) :
             /\ outputs[r][1 + Len(Panels0) + j].type = "dxf"
             /\ outputs[r][1 + Len(Panels0) + j].name =
                    data0.Unit_Ref \o "_" \o Profiles0[j].Part_Name \o "_Flat.dxf"

\* a list was returned for a record that names a profile before a panel
C7_Witness ==
    /\ Len(outputs) >= 1
    /\ Len(data0.Parts_List) = 2
    /\ data0.Parts_List[1].Type = "Profile"
    /\ data0.Parts_List[2].Type = "Panel"
    /\ Len(outputs[1]) = 3
    /\ outputs[1][2].name = data0.Unit_Ref \o "_" \o data0.Parts_List[2].Part_Name \o ".dxf"

\* the X and the Y coordinates of the vertices of a polyline
XsOf(e) == {e.points[k].x : k \in 1..Len(e.points)}
YsOf(e) == {e.points[k].y : k \in 1..Len(e.points)}

\* the least and the greatest member of a non-empty set of numbers
MinOf(S) == CHOOSE m \in S : \A x \in S : m <= x
MaxOf(S) == CHOOSE m \in S : \A x \in S : m >= x

\* the outer cut of a drawing: its first entity
OuterCut(drawing) == drawing.entities[1]

\* the outer cut of drawing d is a closed 12-point polyline spanning [0, w] x [0, h]
OuterCutSpans(d, w, h) ==
    /\ ~d.threw
    /\ OuterCut(d).type = "POLYLINE"
    /\ OuterCut(d).layer = Str("CUT_OUTER")
    /\ OuterCut(d).closed
    /\ Len(OuterCut(d).points) = 12
    /\ MinOf(XsOf(OuterCut(d))) = 0 /\ MaxOf(XsOf(OuterCut(d))) = w
    /\ MinOf(YsOf(OuterCut(d))) = 0 /\ MaxOf(YsOf(OuterCut(d))) = h

\* C8: for a tray panel of finished size W x H (W, H >= 0) the outer cut is a closed
\* polyline on CUT_OUTER whose bounding box is [0, W + 2*35 - 2*1.5] x [0, H + 2*35 - 2*1.5].
C8_TrayBoundingBox ==
    \A r \in 1..Len(outputs) : \A i \in 1..Len(Panels0) :
        (TrayAt(i) /\ Panels0[i].Width_mm >= 0 /\ Panels0[i].Height_mm >= 0) =>
            \A d \in {PanelDrawing(r, i)} :
                OuterCutSpans(d, Panels0[i].Width_mm + 70 * Scale - 3 * Scale,
                              Panels0[i].Height_mm + 70 * Scale - 3 * Scale)

\* a tray panel of 300 x 200 has been drawn: its outer cut spans 367 x 267
C8_Witness ==
    /\ Len(outputs) >= 1
    /\ \E i \in 1..Len(Panels0) :
         /\ TrayAt(i)
         /\ Panels0[i].Width_mm = 300 * Scale /\ Panels0[i].Height_mm = 200 * Scale
         /\ \E d \in {PanelDrawing(1, i)} : OuterCutSpans(d, 367 * Scale, 267 * Scale)

\* the flat width and height the claims speak of, and the usable run of a flange
FlatOf(finished) == finished + 67 * Scale
UsableOf(finished) == FlatOf(finished) - 2 * NotchOffset

\* the entity is a rivet hole: a circle of diameter 4 on CUT_INNER
IsRivet(e) == e.type = "CIRCLE" /\ e.layer = Str("CUT_INNER") /\ e.radius = 2 * Scale

RECURSIVE RivetsAlong(_, _, _, _)
\* the positions along the flange of the rivet holes whose other coordinate is `at`,
\* in drawing order; axis "x" is a horizontal flange (bottom, top), "y" a vertical one
RivetsAlong(es, k, axis, at) ==
    IF k > Len(es) THEN <<>>
    ELSE (IF IsRivet(es[k]) /\ (IF axis = "x" THEN es[k].center.y ELSE es[k].center.x) = at
          THEN << IF axis = "x" THEN es[k].center.x ELSE es[k].center.y >>
          ELSE <<>>)
         \o RivetsAlong(es, k + 1, axis, at)

\* the rivet holes of a tray drawing d of finished size W x H, flange by flange
Bottom(d) == RivetsAlong(d.entities, 1, "x", NotchOffset \div 2)
Top(d, H) == RivetsAlong(d.entities, 1, "x", FlatOf(H) - NotchOffset \div 2)
Left(d) == RivetsAlong(d.entities, 1, "y", NotchOffset \div 2)
Right(d, W) == RivetsAlong(d.entities, 1, "y", FlatOf(W) - NotchOffset \div 2)

\* the positions xs, as printed with three decimals, are evenly spaced at
\* usable/(count+1) from the notch, hence mirror-symmetric about the middle of the run
EvenAndSymmetric(xs, usable) ==
    \A k \in 1..Len(xs) :
        /\ 2 * Abs((Len(xs) + 1) * (xs[k] - NotchOffset) - k * usable) <= (Len(xs) + 1) * Milli
        /\ Abs(xs[k] + xs[Len(xs) + 1 - k] - (usable + 2 * NotchOffset)) <= Milli

\* Math.floor(usable / 150)
FloorCount(usable) == usable \div (150 * Scale)

\* the flanges of a tray drawing carry n rivets along the width and m along the height
RivetCounts(bottom, top, left, right, n, m) ==
    /\ Len(bottom) = n /\ Len(top) = n
    /\ Len(left) = m /\ Len(right) = m

\* tray drawing d of finished size W x H: n and m rivets, evenly spaced and symmetric
RivetsAre(d, W, H, n, m) ==
    \A bottom \in {Bottom(d)} : \A left \in {Left(d)} :
        /\ RivetCounts(bottom, Top(d, H), left, Right(d, W), n, m)
        /\ Top(d, H) = bottom /\ Right(d, W) = left
        /\ EvenAndSymmetric(bottom, UsableOf(W))
        /\ EvenAndSymmetric(left, UsableOf(H))

\* C9 as stated: on every tray panel the bottom and the top flange carry
\* floor((flatW - 2*notch)/150) rivet holes, the left and the right flange
\* floor((flatH - 2*notch)/150), evenly spaced and mirror-symmetric.
C9_RivetCountIsFloor ==
    \A r \in 1..Len(outputs) : \A i \in 1..Len(Panels0) :
        TrayAt(i) =>
            \A d \in {PanelDrawing(r, i)} :
                RivetsAre(d, Panels0[i].Width_mm, Panels0[i].Height_mm,
                          FloorCount(UsableOf(Panels0[i].Width_mm)),
                          FloorCount(UsableOf(Panels0[i].Height_mm)))

\* max(0, n)
AtLeastZero(n) == IF n < 0 THEN 0 ELSE n

\* C9 amended: the counts are max(0, floor(usable/150)): a tray narrower than 1.5 has a
\* negative usable run, for which the floor is -1 and no hole is drawn.  The holes that
\* are drawn are evenly spaced at usable/(count+1) and mirror-symmetric.
C9_RivetCountIsFloorOrNone ==
    \A r \in 1..Len(outputs) : \A i \in 1..Len(Panels0) :
        TrayAt(i) =>
            \A d \in {PanelDrawing(r, i)} :
                RivetsAre(d, Panels0[i].Width_mm, Panels0[i].Height_mm,
                          AtLeastZero(FloorCount(UsableOf(Panels0[i].Width_mm))),
                          AtLeastZero(FloorCount(UsableOf(Panels0[i].Height_mm))))

\* a tray with two holes per horizontal flange and four per vertical flange was drawn
C9_Witness ==
    /\ Len(outputs) >= 1
    /\ \E i \in 1..Len(Panels0) :
         /\ TrayAt(i)
         /\ \E d \in {PanelDrawing(1, i)} :
              /\ Len(Bottom(d)) = 2 /\ Len(Top(d, Panels0[i].Height_mm)) = 2
              /\ Len(Left(d)) = 4 /\ Len(Right(d, Panels0[i].Width_mm)) = 4

\* the flanges along a run that is too short: no rivet hole on either, and a computed
\* count of zero unless the run is below zero
NoRivets(usable, count, one, other) ==
    usable < 150 * Scale =>
        /\ one = <<>> /\ other = <<>>
        /\ usable >= 0 => count = 0

---------------------------------------------------------------------------
(* Properties of parseDxf on what the writer renders (SpecDxf) *)

\* the add* calls that preceded the toString() whose text was parsed (the calls the
\* first text holds inside its ENTITIES section)
ParsedCalls == SubSeq(appended, 1, renders[parsed.of].nAdds)

\* the call gives the parser no coordinate: a polyline without a vertex
NoCoordinate(call) == call.type = "POLYLINE" /\ call.points = <<>>

FallbackBounds == [minX |-> 0, minY |-> 0, maxX |-> 100 * Scale, maxY |-> 100 * Scale]

\* C12 as stated: the first text of a writer in which no entity contributes a coordinate
\* parses to an empty entity list and the bounds (0, 0, 100, 100).
C12_NoCoordinateEmptyList ==
    (parsed.of = 1 /\ \A k \in 1..Len(ParsedCalls) : NoCoordinate(ParsedCalls[k])) =>
        /\ parsed.entities = <<>>
        /\ parsed.bounds = FallbackBounds

\* C12: the first text of a writer to which nothing was appended parses, without error,
\* to an empty entity list and the bounds (0, 0, 100, 100); a first text whose only
\* entities are polylines without a vertex parses to those polylines, one per call, and
\* the same bounds (0, 0, 100, 100).
C12_NoCoordinateFallbackBounds ==
    (parsed.of = 1 /\ \A k \in 1..Len(ParsedCalls) : NoCoordinate(ParsedCalls[k])) =>
        /\ ~parsed.threw
        /\ parsed.bounds = FallbackBounds
        /\ Len(parsed.entities) = Len(ParsedCalls)
        /\ \A k \in 1..Len(ParsedCalls) :
             parsed.entities[k].type = "POLYLINE" /\ parsed.entities[k].points = <<>>
        /\ ParsedCalls = <<>> => parsed.entities = <<>>

\* a writer was rendered with nothing appended and its text parsed to the empty list
\* and the bounds (0, 0, 100, 100)
C12_Witness ==
    /\ parsed.of = 1
    /\ renders[1].nAdds = 0
    /\ parsed.entities = <<>>
    /\ parsed.bounds = FallbackBounds

---------------------------------------------------------------------------
(* Properties of parseDxf on drawn texts (SpecParse) *)

\* the call followed loop by loop returns what parseDxf returns
StepsAgreeWithParseDxf ==
    run.pc = "done" =>
        \A d \in {parseDxf(InputText(input))} :
            parsed.entities = d.entities /\ parsed.bounds = d.bounds /\ parsed.threw = d.threw

RECURSIVE InSection(_, _)
\* the records before the first ENDSEC
InSection(recs, k) ==
    IF k > Len(recs) \/ recs[k] = "ENDSEC" THEN <<>>
    ELSE <<recs[k]>> \o InSection(recs, k + 1)

IsKnownType(rec) == rec \in {"LINE", "CIRCLE", "TEXT", "POLYLINE"}

\* the records of the four known types that stand inside the ENTITIES section
KnownRecs(recs) == SelectSeq(InSection(recs, 1), IsKnownType)

\* the input is a whole text of known and foreign records
WholeForeignText ==
    input.cut = 0 /\ \A k \in 1..Len(input.recs) : input.recs[k] \in ForeignRecs

\* C13: in a whole text, records of an unknown type inside ENTITIES and records outside
\* ENTITIES do not make parseDxf fail, and the entity list and the bounds it returns are
\* those of the same text without these records: one entity per known record inside
\* the section, in order.
C13_ForeignRecordsIgnored ==
    (run.pc = "done" /\ WholeForeignText) =>
        /\ ~parsed.threw
        /\ Len(parsed.entities) = Len(KnownRecs(input.recs))
        /\ \A d \in {parseDxf(InputText([recs |-> KnownRecs(input.recs), cut |-> 0]))} :
             parsed.entities = d.entities /\ parsed.bounds = d.bounds

\* a text with a record of unknown type between a text entity and a polyline was parsed
\* to the end, and the text entity and the polyline are the entities returned
C13_Witness ==
    /\ run.pc = "done" /\ WholeForeignText
    /\ input.recs = <<"TEXT", "ARC", "POLYLINE">>
    /\ Len(parsed.entities) = 2
    /\ parsed.entities[1].type = "TEXT"
    /\ parsed.entities[2].type = "POLYLINE" /\ Len(parsed.entities[2].points) = 2

\* the input is a whole text of entities, with or without values that are no numbers
WholeBadText ==
    input.cut = 0 /\ \A k \in 1..Len(input.recs) : input.recs[k] \in BadRecs

IsBadRec(rec) == rec \in BadRecs \ {"LINE", "CIRCLE"}

\* the x and the y values the entity e hands to updateBounds
BoundXs(e) ==
    CASE e.type = "LINE" -> {e.points[1].x, e.points[2].x}
      [] e.type = "CIRCLE" -> {Minus(e.center.x, e.radius), Plus(e.center.x, e.radius)}
      [] e.type = "TEXT" -> {e.x, Plus(e.x, GlyphWidth(e.text, e.height))}
      [] OTHER -> {e.points[k].x : k \in 1..Len(e.points)}

BoundYs(e) ==
    CASE e.type = "LINE" -> {e.points[1].y, e.points[2].y}
      [] e.type = "CIRCLE" -> {Minus(e.center.y, e.radius), Plus(e.center.y, e.radius)}
      [] e.type = "TEXT" -> {e.y, Plus(e.y, e.height)}
      [] OTHER -> {e.points[k].y : k \in 1..Len(e.points)}

\* the numbers among them, over all entities
NumbersX(ents) == UNION {BoundXs(ents[k]) : k \in 1..Len(ents)} \ {NaN}
NumbersY(ents) == UNION {BoundYs(ents[k]) : k \in 1..Len(ents)} \ {NaN}

\* the bounds of xs and ys: the fallback without an x, infinite in y without a y
BoundsOver(xs, ys) ==
    IF xs = {} THEN FallbackBounds
    ELSE [minX |-> MinOf(xs), maxX |-> MaxOf(xs),
          minY |-> IF ys = {} THEN PosInf ELSE MinOf(ys),
          maxY |-> IF ys = {} THEN NegInf ELSE MaxOf(ys)]

AllFinite(b) == IsFinite(b.minX) /\ IsFinite(b.minY) /\ IsFinite(b.maxX) /\ IsFinite(b.maxY)

\* C14 as stated: a value that is no number in a numeric field does not make parseDxf
\* fail, and the bounds returned hold a value that is not finite.
C14_NonFiniteInBounds ==
    (run.pc = "done" /\ WholeBadText /\ \E k \in 1..Len(input.recs) : IsBadRec(input.recs[k])) =>
        ~parsed.threw /\ ~AllFinite(parsed.bounds)

\* C14: a value that is no number in a numeric field does not make parseDxf fail; the
\* entity is returned with NaN among the values handed to the bounds, NaN never enters
\* the bounds, and the bounds are those of the numbers among these values: the minimum
\* and maximum in x and in y, (0, 0, 100, 100) when no x is a number, and minY = Infinity
\* and maxY = -Infinity when some x is a number and no y is.
C14_NotANumberSkippedByBounds ==
    (run.pc = "done" /\ WholeBadText) =>
        /\ ~parsed.threw
        /\ Len(parsed.entities) = Len(input.recs)
        /\ \A k \in 1..Len(input.recs) :
             IsBadRec(input.recs[k]) <=>
                 NaN \in BoundXs(parsed.entities[k]) \cup BoundYs(parsed.entities[k])
        /\ NaN \notin {parsed.bounds.minX, parsed.bounds.minY, parsed.bounds.maxX, parsed.bounds.maxY}
        /\ parsed.bounds = BoundsOver(NumbersX(parsed.entities), NumbersY(parsed.entities))

\* a text of two lines, the first with x values that are no numbers, was parsed: the
\* bounds are finite, in x those of the second line and in y those of both
C14_Witness ==
    /\ run.pc = "done" /\ WholeBadText
    /\ input.recs = <<"LINE_NOX", "LINE">>
    /\ parsed.entities[1].points[1].x = NaN /\ parsed.entities[1].points[2].x = NaN
    /\ AllFinite(parsed.bounds)
    /\ parsed.bounds.minX = 5 * Scale /\ parsed.bounds.maxX = 40 * Scale
    /\ parsed.bounds.minY = -(20 * Scale) /\ parsed.bounds.maxY = 30 * Scale

\* the codes of the numeric fields: coordinates, radius, height
IsNumericCode(t) == t.k = "str" /\ t.s \in {"10", "20", "11", "21", "40"}

\* every pair of the text that carries a coordinate, a radius or a height has a value,
\* and the value parses to a finite number
FiniteFields(lines) ==
    \A j \in 0..((Len(lines) - 1) \div 2) :
        IsNumericCode(lines[2 * j + 1]) => IsFinite(ParseFloat(LineAt(lines, 2 * j + 1)))

\* the coordinates of the entity e (a circle with its radius, a text with its extent) lie
\* within the bounds b
Within(e, b) ==
    /\ \A x \in BoundXs(e) : b.minX <= x /\ x <= b.maxX
    /\ \A y \in BoundYs(e) : b.minY <= y /\ y <= b.maxY

\* the bounds are finite and ordered, and hold every coordinate of every entity
GoodBounds(ents, b) ==
    /\ AllFinite(b)
    /\ b.minX <= b.maxX /\ b.minY <= b.maxY
    /\ \A k \in 1..Len(ents) : Within(ents[k], b)

\* C21 as stated: on a text in which every numeric field parses to a finite number,
\* parseDxf returns bounds that are finite, with minX <= maxX and minY <= maxY, and that
\* hold every coordinate of every entity returned (circles with their radius).
C21_FiniteFieldsGoodBounds ==
    (run.pc = "done" /\ FiniteFields(InputText(input))) =>
        ~parsed.threw /\ GoodBounds(parsed.entities, parsed.bounds)

\* the same of the calls that return: the bounds are good whenever parseDxf returns any
GoodBoundsWhenReturned ==
    (run.pc = "done" /\ FiniteFields(InputText(input)) /\ ~parsed.threw) =>
        GoodBounds(parsed.entities, parsed.bounds)

\* a circle and a line with finite fields were parsed: bounds x from -14.5 to 40
GoodBoundsReached ==
    /\ run.pc = "done" /\ ~parsed.threw
    /\ input.recs = <<"CIRCLE", "LINE">>
    /\ parsed.bounds.minX = 10500 * Milli - 25 * Scale /\ parsed.bounds.maxX = 40 * Scale
    /\ parsed.bounds.minY = -(55 * Scale) /\ parsed.bounds.maxY = 7500 * Milli

\* the step consumes at least one pair of lines
ConsumesPair == run'.i >= run.i + 2

\* how deep in the loops the call is
Depth(pc) ==
    CASE pc = "done" -> 0 [] pc = "main" -> 1 [] pc = "vertices" -> 2 [] OTHER -> 3

\* what is left to do: the lines not yet read, then the loops not yet left
Variant(st) == 4 * (Len(InputText(input)) + 1 - st.i) + Depth(st.pc)

\* a call that has not ended, by return or by an exception, can take a step
NeverStuck == run.pc = "done" \/ ENABLED <<NextParse>>_vars

\* C20: parseDxf terminates on every input text, whole or cut short after any line (an
\* odd number of lines, a POLYLINE without SEQEND, SECTION as the last pair): every
\* iteration of each of its loops consumes at least one pair of lines, every step
\* brings the call nearer to its end (fewer lines left, or the same lines and a loop
\* left), the lines left are never fewer than none, and the iterations and loop exits
\* together never outnumber the lines of the text by more than two.
C20_Terminates ==
    /\ [][(MainIter \/ FieldIter \/ VertexIter \/ VFieldIter) => ConsumesPair]_vars
    /\ [][Variant(run') < Variant(run)]_vars
    /\ [](Variant(run) >= 0)
    /\ [](run.steps <= Len(InputText(input)) + 2)
    /\ [](run.pc \in {"main", "fields", "vertices", "vfields", "done"})

\* the call returned on a text that ends inside the vertex list of a POLYLINE, one pair
\* before its SEQEND, and the polyline is among the entities
C20_Witness ==
    /\ run.pc = "done" /\ ~parsed.threw
    /\ input.cut = 2
    /\ input.recs # <<>> /\ input.recs[Len(input.recs)] = "POLYLINE"
    /\ run.i >= Len(InputText(input))
    /\ parsed.entities # <<>>
    /\ parsed.entities[Len(parsed.entities)].type = "POLYLINE"

---------------------------------------------------------------------------
(* Properties of addDimension (SpecDim) *)

IsDim(a) == a.type = "DIMENSION"

\* the two points of the call are less than 0.1 apart
CloserThanTenth(a) ==
    /\ Abs(a.q[1] - a.p[1]) < Tenth
    /\ Abs(a.q[2] - a.p[2]) < Tenth
    /\ (a.q[1] - a.p[1]) * (a.q[1] - a.p[1]) + (a.q[2] - a.p[2]) * (a.q[2] - a.p[2])
         < Tenth * Tenth

\* the step is the addDimension call with the arguments a
DimensionCall(a) == appended' = Append(appended, [type |-> "DIMENSION"] @@ a)

\* C11: an addDimension call whose two points are less than 0.1 apart leaves the
\* buffer as it was, whatever the explicit value and the offset.
C11_ClosePointsAppendNothing ==
    [][\A a \in DimVals : (DimensionCall(a) /\ CloserThanTenth(a)) => content' = content]_vars

\* a line was added, then a dimension between points 0.05 apart with an explicit value
\* and a negative offset, and the buffer holds the header and the line only
C11_Witness ==
    /\ Len(appended) = 2
    /\ appended[1].type = "LINE"
    /\ IsDim(appended[2]) /\ CloserThanTenth(appended[2])
    /\ appended[2].p # appended[2].q /\ appended[2].value # <<>> /\ appended[2].offset < 0
    /\ content = header \o LineRows(appended[1].p[1], appended[1].p[2], appended[1].q[1],
                                     appended[1].q[2], appended[1].layer, appended[1].color)

\* the rotations (code 50) of the texts in the buffer c, in degrees times Scale
Rotations(c) == {c[k + 1].v : k \in {j \in 1..(Len(c) - 1) : j % 2 = 1 /\ c[j] = Str("50")}}

\* the rotation of the text the buffer c ends with
LastRotation(c) == c[Len(c) - 2].v

RotationOf(dx, dy, r) ==
    CASE dx > 0 /\ dy = 0 -> r = 0
      [] dx = 0 /\ dy > 0 -> r = 90 * Scale
      [] dx = 0 /\ dy < 0 -> r = -(90 * Scale)
      [] dx < 0 /\ dy = 0 -> r = 360 * Scale
      [] dx > 0 /\ dy > 0 -> 0 < r /\ r < 90 * Scale
      [] dx > 0 /\ dy < 0 -> -(90 * Scale) < r /\ r < 0
      [] dx < 0 /\ dy > 0 -> 270 * Scale < r /\ r < 360 * Scale
      [] dx < 0 /\ dy < 0 -> 0 < r /\ r < 90 * Scale

EntitiesOf(call) == IF ~IsDim(call) THEN 1 ELSE IF CloserThanTenth(call) THEN 0 ELSE 6

RECURSIVE EntitiesBefore(_, _)
\* how many entities the calls before the k-th appended
EntitiesBefore(calls, k) ==
    IF k <= 1 THEN 0 ELSE EntitiesBefore(calls, k - 1) + EntitiesOf(calls[k - 1])

\* the unit in which the squares of the lengths of this model fit: a tenth, or a
\* thousandth for the short segments
Grain(dx, dy) == IF dx % Tenth = 0 /\ dy % Tenth = 0 THEN Tenth ELSE Milli

\* the Euclidean length of (dx, dy), for the segments of DimVals
DistanceOf(dx, dy) ==
    CHOOSE d \in {Abs(dx), Abs(dy), (5 * Abs(dx)) \div 3, (5 * Abs(dx)) \div 4} :
        (d \div Grain(dx, dy)) * (d \div Grain(dx, dy))
            = (dx \div Grain(dx, dy)) * (dx \div Grain(dx, dy))
              + (dy \div Grain(dx, dy)) * (dy \div Grain(dx, dy))

\* five times the unit vector of (dx, dy) turned a quarter turn to the left
NormalX5(dx, dy) == -((5 * (dy \div Milli)) \div (DistanceOf(dx, dy) \div Milli))
NormalY5(dx, dy) == (5 * (dx \div Milli)) \div (DistanceOf(dx, dy) \div Milli)

\* the point pt moved by len across the segment of the call
AcrossX(call, pt, len) ==
    pt[1] + RoundDiv(NormalX5(call.q[1] - call.p[1], call.q[2] - call.p[2]) * len, 5)
AcrossY(call, pt, len) ==
    pt[2] + RoundDiv(NormalY5(call.q[1] - call.p[1], call.q[2] - call.p[2]) * len, 5)

\* e is a LINE on DIMENSIONS in colour 3
IsDimLine(e) == e.type = "LINE" /\ e.layer = Str("DIMENSIONS") /\ e.color = 3

\* the end k of the line e is the point pt of the call moved by len across its segment
EndIs(e, k, call, pt, len) ==
    /\ RoundedTo3(e.points[k].x, AcrossX(call, pt, len))
    /\ RoundedTo3(e.points[k].y, AcrossY(call, pt, len))

\* the middle of the line e is the end k of the line m, to a thousandth
CentredOn(e, m, k) ==
    /\ Abs(e.points[1].x + e.points[2].x - 2 * m.points[k].x) <= 2 * Milli
    /\ Abs(e.points[1].y + e.points[2].y - 2 * m.points[k].y) <= 2 * Milli

\* the number the text of the call carries: the explicit value, else the distance
ValueOf(call) ==
    IF call.value # <<>> THEN call.value[1]
    ELSE DistanceOf(call.q[1] - call.p[1], call.q[2] - call.p[2])

\* the entities e[o + 1] .. e[o + 6] are what C19 says the call appends
SixEntities(e, o, call) ==
    /\ \A k \in 1..5 : IsDimLine(e[o + k])
    /\ EndIs(e[o + 1], 1, call, call.p, Sign(call.offset) * 2 * Scale)
    /\ EndIs(e[o + 1], 2, call, call.p, call.offset + Sign(call.offset) * 2 * Scale)
    /\ EndIs(e[o + 2], 1, call, call.q, Sign(call.offset) * 2 * Scale)
    /\ EndIs(e[o + 2], 2, call, call.q, call.offset + Sign(call.offset) * 2 * Scale)
    /\ EndIs(e[o + 3], 1, call, call.p, call.offset)
    /\ EndIs(e[o + 3], 2, call, call.q, call.offset)
    /\ CentredOn(e[o + 4], e[o + 3], 1)
    /\ CentredOn(e[o + 5], e[o + 3], 2)
    /\ e[o + 4].points[1] # e[o + 4].points[2] /\ e[o + 5].points[1] # e[o + 5].points[2]
    /\ e[o + 6].type = "TEXT"
    /\ e[o + 6].text.k = "f1" /\ e[o + 6].text.s = ""
    /\ 2 * Abs(e[o + 6].text.v * Tenth - ValueOf(call)) <= Tenth

\* C19: an addDimension call whose points are at least 0.1 apart appends exactly six
\* entities, in this order: the two extension lines (from 2.0 across the segment at each
\* point to 2.0 beyond the dimension line), the dimension line joining the two points
\* moved by the full offset across the segment, the two ticks centred on its ends, all
\* five lines on DIMENSIONS in colour 3, and a text carrying the explicit value if one
\* was given and the distance of the two points otherwise, with one decimal.
C19_SixEntitiesInOrder ==
    \A d \in {parseDxf(toString(content).text)} :
        /\ ~d.threw
        /\ Len(d.entities) = EntitiesBefore(appended, Len(appended) + 1)
        /\ \A k \in 1..Len(appended) :
             (IsDim(appended[k]) /\ ~CloserThanTenth(appended[k])) =>
                 SixEntities(d.entities, EntitiesBefore(appended, k), appended[k])

\* a dimension with an explicit value and a dimension without one, of slanted segments
\* and with offsets of both signs, were drawn, and the buffer holds twelve entities
C19_Witness ==
    /\ Len(appended) = 2
    /\ \A k \in 1..2 :
         /\ IsDim(appended[k]) /\ ~CloserThanTenth(appended[k])
         /\ appended[k].p[1] # appended[k].q[1] /\ appended[k].p[2] # appended[k].q[2]
    /\ appended[1].value # <<>> /\ appended[2].value = <<>>
    /\ appended[1].offset > 0 /\ appended[2].offset < 0
    /\ Len(parseDxf(toString(content).text).entities) = 12

---------------------------------------------------------------------------
(* Properties of the panel drawings (SpecGen) *)

\* the notes of the panel contain "flat", in whatever case
SaysFlat(panel) == panel.Notes # None /\ panel.Notes[1] \in {"Flat plate", "FLAT", "shim, flat"}

NoHoles(panel) == panel.Holes = None \/ panel.Holes = Some(<<>>)

Point(x, y) == [x |-> x, y |-> y]

\* e is the closed outline (0, 0), (W, 0), (W, H), (0, H) on CUT_OUTER
IsPlateOutline(e, W, H) ==
    /\ e.type = "POLYLINE" /\ e.layer = Str("CUT_OUTER") /\ e.closed
    /\ e.points = << Point(0, 0), Point(W, 0), Point(W, H), Point(0, H) >>

\* e is the label of the panel
IsLabel(e, panel) ==
    /\ e.type = "TEXT" /\ e.layer = Str("TEXT")
    /\ e.text = Str("AHU-01 - " \o panel.Part_Name \o " (" \o panel.Material \o ")")

\* no line on BEND, no circle, and an outline of four vertices: nothing of a tray
NothingOfATray(d) ==
    /\ \A k \in 1..Len(d.entities) :
         /\ d.entities[k].layer # Str("BEND")
         /\ d.entities[k].type # "CIRCLE"
    /\ Len(OuterCut(d).points) = 4

\* the drawing d is that of the flat plate `panel` without holes: outline, the dimension
\* of the width below it, the dimension of the height to its right, the label
IsPlainPlate(d, panel) ==
    /\ ~d.threw
    /\ Len(d.entities) = 14
    /\ IsPlateOutline(d.entities[1], panel.Width_mm, panel.Height_mm)
    /\ SixEntities(d.entities, 1,
                   [p |-> <<0, 0>>, q |-> <<panel.Width_mm, 0>>,
                    value |-> <<panel.Width_mm>>, offset |-> -(40 * Scale)])
    /\ SixEntities(d.entities, 7,
                   [p |-> <<panel.Width_mm, 0>>, q |-> <<panel.Width_mm, panel.Height_mm>>,
                    value |-> <<panel.Height_mm>>, offset |-> 40 * Scale])
    /\ IsLabel(d.entities[14], panel)
    /\ NothingOfATray(d)

\* every panel has its one drawing file, and the outline of the drawing has four vertices
\* exactly when the notes say flat (twelve, with a line on BEND, when they do not)
FlatExactlyWhenNotesSayFlat(r) ==
    /\ Len(outputs[r]) = 1 + Len(Panels0) + Len(Profiles0)
    /\ \A i \in 1..Len(Panels0) :
         /\ outputs[r][1 + i].type = "dxf"
         /\ outputs[r][1 + i].name = "AHU-01_" \o Panels0[i].Part_Name \o ".dxf"
         /\ \A d \in {PanelDrawing(r, i)} :
              IF SaysFlat(Panels0[i])
              THEN IsPlateOutline(OuterCut(d), Panels0[i].Width_mm, Panels0[i].Height_mm)
              ELSE /\ Len(OuterCut(d).points) = 12
                   /\ \E k \in 1..Len(d.entities) : d.entities[k].layer = Str("BEND")

\* C15 as stated: a panel is drawn flat exactly when its notes contain "flat", and the
\* drawing of a flat panel of positive width and height without holes holds the outline,
\* two dimension groups and the label, and nothing of a tray.
C15_FlatPlateOfPositiveSize ==
    \A r \in 1..Len(outputs) :
        /\ FlatExactlyWhenNotesSayFlat(r)
        /\ \A i \in 1..Len(Panels0) :
             (/\ SaysFlat(Panels0[i]) /\ NoHoles(Panels0[i])
              /\ Panels0[i].Width_mm > 0 /\ Panels0[i].Height_mm > 0) =>
                 IsPlainPlate(PanelDrawing(r, i), Panels0[i])

\* C15: a panel is drawn flat exactly when its notes contain "flat" in any case (a tray
\* when it has no notes), and the drawing of a flat panel of width and height at least
\* 0.1 without holes holds, in this order, the closed outline (0,0), (W,0), (W,H), (0,H)
\* on CUT_OUTER, the six entities of the width dimension, the six of the height
\* dimension and the label, and no line on BEND, no circle and no notch vertex.
C15_FlatPlateOfSizeAtLeastTenth ==
    \A r \in 1..Len(outputs) :
        /\ FlatExactlyWhenNotesSayFlat(r)
        /\ \A i \in 1..Len(Panels0) :
             (/\ SaysFlat(Panels0[i]) /\ NoHoles(Panels0[i])
              /\ Panels0[i].Width_mm >= Tenth /\ Panels0[i].Height_mm >= Tenth) =>
                 IsPlainPlate(PanelDrawing(r, i), Panels0[i])

\* the flat panel of 250 x 120.5 whose notes read "FLAT" was drawn: fourteen entities,
\* the first an outline of four vertices
C15_Witness ==
    /\ Len(outputs) >= 1
    /\ \E i \in 1..Len(Panels0) :
         /\ Panels0[i].Notes = Some("FLAT") /\ NoHoles(Panels0[i])
         /\ Panels0[i].Width_mm = 250 * Scale
         /\ \A d \in {PanelDrawing(1, i)} :
              Len(d.entities) = 14 /\ Len(OuterCut(d).points) = 4

\* the rectangle [0, fw] x [0, fh] with a square of side n removed at each corner,
\* counter-clockwise from the bottom edge
Notched(fw, fh, n) ==
    << Point(n, 0), Point(fw - n, 0), Point(fw - n, n), Point(fw, n),
       Point(fw, fh - n), Point(fw - n, fh - n), Point(fw - n, fh), Point(n, fh),
       Point(n, fh - n), Point(0, fh - n), Point(0, n), Point(n, n) >>

RECURSIVE OnLayer(_, _, _)
\* the entities of es from the k-th on that lie on the layer, in drawing order
OnLayer(es, k, layer) ==
    IF k > Len(es) THEN <<>>
    ELSE (IF es[k].layer = Str(layer) THEN <<es[k]>> ELSE <<>>) \o OnLayer(es, k + 1, layer)

\* e is the line from (x1, y1) to (x2, y2)
IsLineBetween(e, x1, y1, x2, y2) ==
    e.type = "LINE" /\ e.points = << Point(x1, y1), Point(x2, y2) >>

\* bends are the left, right, bottom and top bend line of a flat size fw x fh, each
\* n inside the outer edge and running between the notches
FourBends(bends, fw, fh, n) ==
    /\ Len(bends) = 4
    /\ IsLineBetween(bends[1], n, n, n, fh - n)
    /\ IsLineBetween(bends[2], fw - n, n, fw - n, fh - n)
    /\ IsLineBetween(bends[3], n, n, fw - n, n)
    /\ IsLineBetween(bends[4], n, fh - n, fw - n, fh - n)

\* how many entities of es are polylines on CUT_OUTER, and how many are circles
OuterPolylines(es) ==
    Cardinality({k \in 1..Len(es) : es[k].type = "POLYLINE" /\ es[k].layer = Str("CUT_OUTER")})
Circles(es) == Cardinality({k \in 1..Len(es) : es[k].type = "CIRCLE"})

\* every circle of d is on CUT_INNER and on one of the four flanges, and the two
\* flanges of each pair carry as many
CirclesPairedOnFlanges(d, W, H) ==
    /\ \A k \in 1..Len(d.entities) :
         d.entities[k].type = "CIRCLE" => d.entities[k].layer = Str("CUT_INNER")
    /\ Len(Bottom(d)) = Len(Top(d, H))
    /\ Len(Left(d)) = Len(Right(d, W))
    /\ Circles(d.entities) = 2 * Len(Bottom(d)) + 2 * Len(Left(d))

\* d is the drawing of a tray of finished size W x H without holes of its own
IsPlainTray(d, W, H) ==
    /\ ~d.threw
    /\ OuterPolylines(d.entities) = 1
    /\ OuterCut(d).type = "POLYLINE" /\ OuterCut(d).layer = Str("CUT_OUTER")
    /\ OuterCut(d).closed
    /\ OuterCut(d).points = Notched(FlatOf(W), FlatOf(H), NotchOffset)
    /\ FourBends(OnLayer(d.entities, 1, "BEND"), FlatOf(W), FlatOf(H), NotchOffset)
    /\ CirclesPairedOnFlanges(d, W, H)

\* C18: the drawing of a tray panel without holes of its own has exactly one closed
\* polyline on CUT_OUTER, of the twelve vertices of the rectangle [0, flatW] x [0, flatH]
\* less a square of side 34.25 at each corner, exactly four lines on BEND (left, right,
\* bottom, top, each 34.25 inside the outer edge), and circles on CUT_INNER only, as
\* many on the bottom flange as on the top and as many on the left as on the right.
C18_TrayOutlineBendsAndRivets ==
    \A r \in 1..Len(outputs) : \A i \in 1..Len(Panels0) :
        (TrayAt(i) /\ NoHoles(Panels0[i])) =>
            IsPlainTray(PanelDrawing(r, i), Panels0[i].Width_mm, Panels0[i].Height_mm)

\* the tray of 300 x 200 without holes was drawn: flat size 367 x 267, four bend lines,
\* one rivet hole on the bottom flange and one on the left
C18_Witness ==
    /\ Len(outputs) >= 1
    /\ \E i \in 1..Len(Panels0) :
         /\ TrayAt(i) /\ Panels0[i].Holes = None
         /\ Panels0[i].Width_mm = 300 * Scale /\ Panels0[i].Height_mm = 200 * Scale
         /\ \A d \in {PanelDrawing(1, i)} :
              /\ OuterCut(d).points[5] = Point(367 * Scale, 267 * Scale - NotchOffset)
              /\ Len(OnLayer(d.entities, 1, "BEND")) = 4
              /\ Len(Bottom(d)) = 1 /\ Len(Left(d)) = 1

---------------------------------------------------------------------------
(* Each drawing depends on its own part only (SpecGen) *)

\* the record of the same unit that holds the part alone
Alone(part) == [Unit_Ref |-> data0.Unit_Ref, Parts_List |-> <<part>>]

RECURSIVE NthOutput(_, _)
\* what the n-th call in succession on the record d returns
NthOutput(d, n) ==
    IF n <= 1 THEN generateFabricationFiles(d) ELSE NthOutput(DataAfter(d), n - 1)

\* the drawing file of the part in the n-th output for the record that holds it alone:
\* the file after the cut list
DrawingAlone(part, n) == NthOutput(Alone(part), n)[2]

\* in the r-th output for the record, the drawing file of every panel and of every
\* profile has the content it has in the r-th output for the record holding that part alone
DrawingsAsAlone(r) ==
    /\ \A i \in 1..Len(Panels0) :
         outputs[r][1 + i].content = DrawingAlone(Panels0[i], r).content
    /\ \A j \in 1..Len(Profiles0) :
         outputs[r][1 + Len(Panels0) + j].content = DrawingAlone(Profiles0[j], r).content

\* C17: the content of the drawing file of a part is the same whatever other parts the
\* record holds: in every output for a record, it is the content the same call yields
\* for the record of the same unit holding that part alone.
C17_DrawingDependsOnOwnPartOnly ==
    \A r \in 1..Len(outputs) :
        /\ Len(outputs[r]) = 1 + Len(Panels0) + Len(Profiles0)
        /\ DrawingsAsAlone(r)

\* a record of two different panels, the second a tray with holes, was drawn: the two
\* drawing files differ, and the second has the content it has when drawn alone
C17_Witness ==
    /\ Len(outputs) >= 1
    /\ Len(data0.Parts_List) = 2
    /\ Len(Panels0) = 2
    /\ Panels0[1].Part_Name = "Cover"
    /\ Panels0[2].Part_Name = "Top_Panel"
    /\ outputs[1][2].content # outputs[1][3].content
    /\ outputs[1][3].content = DrawingAlone(Panels0[2], 1).content

---------------------------------------------------------------------------
(* Properties of the profile drawings (SpecGen) *)

\* the drawing of profile j in the list run r returned, read back
ProfileDrawing(r, j) == parseDxf(outputs[r][1 + Len(Panels0) + j].content)

\* the lip, flange and web lengths the profile is drawn with
SegmentsOf(prof) == ProfileSegments(parseProfileDims(prof.Part_Name, DefaultWeb(prof)))

\* every segment of the profile is at least as long as the bend deduction 2 * 2.0
SegmentsCoverDeduction(prof) ==
    \A k \in 1..Len(SegmentsOf(prof)) : SegmentsOf(prof)[k] >= 4 * Scale

\* the height of the strip: the greatest y of the outer-cut rectangle, which starts at 0
StripHeight(d) == MaxOf(YsOf(OuterCut(d)))

\* bends are horizontal lines strictly between the lower and the upper edge of the strip
StrictlyInside(bends, height) ==
    \A k \in 1..Len(bends) :
        /\ bends[k].type = "LINE"
        /\ bends[k].points[1].y = bends[k].points[2].y
        /\ 0 < bends[k].points[1].y /\ bends[k].points[1].y < height

\* the drawing d is a strip, a closed rectangle on CUT_OUTER from y = 0, with n bend lines
\* all strictly inside it
BendsInsideStrip(d, n) ==
    /\ ~d.threw
    /\ OuterCut(d).type = "POLYLINE" /\ OuterCut(d).layer = Str("CUT_OUTER")
    /\ Len(OuterCut(d).points) = 4 /\ MinOf(YsOf(OuterCut(d))) = 0
    /\ Len(OnLayer(d.entities, 1, "BEND")) = n
    /\ StrictlyInside(OnLayer(d.entities, 1, "BEND"), StripHeight(d))

\* C22 as stated: for every profile, every bend line drawn lies strictly inside the
\* strip: 0 < pos < flatLength, the height of the outer-cut rectangle.
C22_BendsInsideEveryStrip ==
    \A r \in 1..Len(outputs) : \A j \in 1..Len(Profiles0) :
        BendsInsideStrip(ProfileDrawing(r, j), Len(SegmentsOf(Profiles0[j])) - 1)

\* C22: for every profile whose lip, flange and web lengths are each at least the bend
\* deduction 4 (twice the thickness 2.0), there is one bend line per pair of neighbouring
\* segments and every bend line lies strictly inside the strip: 0 < pos < flatLength,
\* the height of the outer-cut rectangle.
C22_BendsInsideStripOfLongSegments ==
    \A r \in 1..Len(outputs) : \A j \in 1..Len(Profiles0) :
        SegmentsCoverDeduction(Profiles0[j]) =>
            BendsInsideStrip(ProfileDrawing(r, j), Len(SegmentsOf(Profiles0[j])) - 1)

\* the profile 100 x 50 x 15 was drawn: a strip 214 high with four bend lines, the first
\* at 13 and the last at 201
C22_Witness ==
    /\ Len(outputs) >= 1
    /\ \E j \in 1..Len(Profiles0) :
         /\ Profiles0[j].Part_Name = "C-Ch 100x50x15"
         /\ \A d \in {ProfileDrawing(1, j)} : \A bends \in {OnLayer(d.entities, 1, "BEND")} :
              /\ StripHeight(d) = 214 * Scale
              /\ Len(bends) = 4
              /\ bends[1].points[1].y = 13 * Scale
              /\ bends[4].points[1].y = 201 * Scale

---------------------------------------------------------------------------
(* Properties of the text of every drawing file (SpecGen) *)

\* the k-th pair of a text: its code line and its value line
PairCode(text, k) == text[2 * k - 1]
PairValue(text, k) == text[2 * k]
IsPair(text, k, code, value) == PairCode(text, k) = Str(code) /\ PairValue(text, k) = Str(value)

\* the pair that opens the ENTITIES section
EntitiesPair(text) ==
    CHOOSE k \in 2..(Len(text) \div 2) :
        IsPair(text, k - 1, "0", "SECTION") /\ IsPair(text, k, "2", "ENTITIES")

\* the layer names the layer table declares, in the pairs before pair e
DeclaredLayers(text, e) ==
    { PairValue(text, k) : k \in {j \in 2..(e - 1) :
                                     /\ IsPair(text, j - 1, "0", "LAYER")
                                     /\ PairCode(text, j) = Str("2")} }

\* the layer names the records carry, in the pairs after pair e
UsedLayers(text, e) ==
    { PairValue(text, k) : k \in {j \in (e + 1)..(Len(text) \div 2) :
                                     PairCode(text, j) = Str("8")} }

\* the pairs after pair e that open an entity or a vertex
RecordPairs(text, e) ==
    { k \in (e + 1)..(Len(text) \div 2) :
        /\ PairCode(text, k) = Str("0")
        /\ PairValue(text, k) \in {Str("LINE"), Str("CIRCLE"), Str("TEXT"), Str("POLYLINE"),
                                   Str("VERTEX")} }

SixLayers == {Str("0"), Str("CUT_OUTER"), Str("CUT_INNER"), Str("BEND"), Str("DIMENSIONS"),
              Str("TEXT")}

\* the pairs that are the end-of-file marker
EofPairs(text) == { k \in 1..(Len(text) \div 2) : IsPair(text, k, "0", "EOF") }

\* the text is made of pairs, declares the six layers, names a declared layer in every
\* entity and vertex, and ends with its only end-of-file marker
LayersDeclaredAndOneEof(text) ==
    /\ Len(text) % 2 = 0
    /\ \A e \in {EntitiesPair(text)} :
         /\ DeclaredLayers(text, e) = SixLayers
         /\ UsedLayers(text, e) \subseteq DeclaredLayers(text, e)
         /\ \A k \in RecordPairs(text, e) : PairCode(text, k + 1) = Str("8")
    /\ EofPairs(text) = {Len(text) \div 2}

\* C23: in every drawing file generateFabricationFiles returns, of a panel or a profile,
\* with or without holes, every entity names one of the six layers the layer table of
\* that file declares (0, CUT_OUTER, CUT_INNER, BEND, DIMENSIONS, TEXT), and the
\* end-of-file marker stands exactly once in the text, as its last pair.
C23_DeclaredLayersAndOneEof ==
    \A r \in 1..Len(outputs) : \A k \in 1..Len(outputs[r]) :
        outputs[r][k].type = "dxf" => LayersDeclaredAndOneEof(outputs[r][k].content)

\* the tray with a round and a square hole and a profile were drawn: the panel file
\* uses the five named layers, the profile file all of them but CUT_INNER
C23_Witness ==
    /\ Len(outputs) >= 1
    /\ Len(Panels0) = 1 /\ Len(Profiles0) = 1
    /\ Panels0[1].Part_Name = "Top_Panel"
    /\ UsedLayers(outputs[1][2].content, EntitiesPair(outputs[1][2].content))
           = SixLayers \ {Str("0")}
    /\ UsedLayers(outputs[1][3].content, EntitiesPair(outputs[1][3].content))
           = SixLayers \ {Str("0"), Str("CUT_INNER")}
    /\ EofPairs(outputs[1][3].content) = {Len(outputs[1][3].content) \div 2}

---------------------------------------------------------------------------
(* Properties of App (SpecApp) *)

\* the changes of step along the line IDLE, READING, EXTRACTING, CALCULATING, COMPLETE
Forward ==
    { <<ProcessingStep.IDLE, ProcessingStep.READING>>,
      <<ProcessingStep.READING, ProcessingStep.EXTRACTING>>,
      <<ProcessingStep.EXTRACTING, ProcessingStep.CALCULATING>>,
      <<ProcessingStep.CALCULATING, ProcessingStep.COMPLETE>> }

\* the step changes forward, or to ERROR from EXTRACTING or CALCULATING, or back to
\* IDLE by Try Again from ERROR or by Process Another Document from COMPLETE
StepChangeAllowed ==
    \/ <<app.step, app'.step>> \in Forward
    \/ /\ app'.step = ProcessingStep.ERROR
       /\ app.step \in {ProcessingStep.EXTRACTING, ProcessingStep.CALCULATING}
    \/ /\ app'.step = ProcessingStep.IDLE
       /\ \/ app.step = ProcessingStep.ERROR /\ TryAgain
          \/ app.step = ProcessingStep.COMPLETE /\ ProcessAnother

\* an upload that is accepted finds the step IDLE, and one of a file that is no PDF
\* leaves the step as it is
UploadWhileIdle ==
    HandleFileUpload =>
        /\ app.step = ProcessingStep.IDLE
        /\ app'.errorMsg = "Please upload a PDF file." => app'.step = app.step
        /\ app'.step \in {ProcessingStep.IDLE, ProcessingStep.READING}

\* while the step is COMPLETE the extracted data is set, it is the record received in
\* this upload as the generation left it, and the files are those generated from it
CompleteHoldsItsFiles ==
    app.step = ProcessingStep.COMPLETE =>
        /\ app.extractedData # None /\ app.received # None
        /\ app.extractedData = Some(DataAfter(app.received[1]))
        /\ app.files = generateFabricationFiles(app.received[1])
        /\ app.files # <<>>

\* C24: the step changes only along IDLE, READING, EXTRACTING, CALCULATING, COMPLETE,
\* to ERROR only from EXTRACTING or CALCULATING, and back to IDLE only by Try Again from
\* ERROR or Process Another Document from COMPLETE; an upload is accepted only while the
\* step is IDLE and an upload that is no PDF leaves the step unchanged; and whenever the
\* step is COMPLETE the extracted data is set and the file list is the one generated
\* from the record extracted in the same upload.
C24_StepsAndCompleteData ==
    /\ [][app'.step # app.step => StepChangeAllowed]_vars
    /\ [][UploadWhileIdle]_vars
    /\ [](app.step \in {ProcessingStep[k] : k \in DOMAIN ProcessingStep})
    /\ []CompleteHoldsItsFiles

\* an upload went through to COMPLETE with the record of a tray with holes and a profile:
\* three files, and the extracted data hold the holes as the generation moved them
C24_Witness ==
    /\ app.step = ProcessingStep.COMPLETE
    /\ app.errorMsg = ""
    /\ app.received # None
    /\ Len(app.received[1].Parts_List) = 2
    /\ app.received[1].Parts_List[1].Part_Name = "Top_Panel"
    /\ app.received[1].Parts_List[2].Part_Name = "Base_Rail"
    /\ app.extractedData # app.received
    /\ Len(app.files) = 3

============================================================================
